---- MODULE Spec2Model ----
(***************************************************************************)
(* Model of the core of aw-webui-sg: the activity-segment engine           *)
(* (src/js/events.js, calculateActivitySegments), the window-grouping      *)
(* engine (src/js/panelManager.js, groupWindowWatcherEvents), the task     *)
(* report (generateTaskReport), the store client's read                    *)
(* (src/js/api.js, fetchEventsForBucket), the refreshes of main.js, the    *)
(* Stop and Save handlers of the edit panel, the slots and the navigation  *)
(* of the calendar, and the Escape key of the panels.                      *)
(*                                                                         *)
(* Instants are integers in milliseconds (Date.getTime()); durations are   *)
(* integers in seconds.  Every instant of the model is a whole second      *)
(* (a multiple of MsPerSec), so that the code's "/ 1000" and "/ 2" are     *)
(* exact and \div computes what JavaScript's division computes.            *)
(***************************************************************************)
EXTENDS Integers, Sequences, FiniteSets, TLC

\* ---------------------------------------------------------------- bounds
\* the presence events lie in the seconds 0 .. MaxTime; the task events and the
\* clock in the seconds 0 .. MaxTime + 1
MaxTime == 2
\* longest presence (AFK) list handed to the engine
MaxAfk == 2
\* most task (stopwatch) events in the pool of the aggregator specification
MaxTasks == 2
\* most window samples handed to the grouping engine
MaxSamples == 4

\* ------------------------------------------------------ program constants
\* events.js:14  "swEvent.duration * 1000"
MsPerSec == 1000

VARIABLES
    now,              \* the wall clock, new Date().getTime()
    stopwatchEvents,  \* the task event objects (mutated in place by the engine)
    afkEvents,        \* the presence events
    last,             \* the latest call of calculateActivitySegments
    prev,             \* the call before it
    allEvents,        \* the events handed to groupWindowWatcherEvents
    windowGroups,     \* what groupWindowWatcherEvents returned and logged
    allEventsData,    \* the events handed to generateTaskReport
    reportData,       \* what generateTaskReport returned
    bucketEvents,     \* the events the store holds for the stopwatch bucket
    processedEvents,  \* what fetchEventsForBucket returned
    loaded,           \* what loadAndProcessEvents returned
    refreshes,        \* the refresh operations in the order they were started
    timeline,         \* the events the timeline was last drawn with
    edit,             \* the click handler of the edit panel that is under way
    calendarData,     \* the activities of the calendar: seconds per label and day
    daySlots,         \* the slot of every label on every rendered day
    panelState,       \* the open panels, the zoom panel, the keydown listeners
    lastEscape,       \* the panels before and after the last press of Escape
    calendarView      \* the month, the header and the grid of the calendar, and
                      \* the calls of renderCalendar that await their fetch

groupVars == <<allEvents, windowGroups>>
reportVars == <<allEventsData, reportData>>
fetchVars == <<bucketEvents, processedEvents>>
loadVars == <<loaded>>
refreshVars == <<refreshes, timeline>>
editVars == <<edit>>
slotVars == <<calendarData, daySlots>>
panelVars == <<panelState, lastEscape>>
viewVars == <<calendarView>>
uiVars == <<loadVars, refreshVars, editVars, slotVars, panelVars, viewVars>>
vars == <<now, stopwatchEvents, afkEvents, last, prev,
          groupVars, reportVars, fetchVars, uiVars>>

\* ------------------------------------------------------------ the engine

\* events.js:24  afkEnd = afkStart + afk.duration * 1000
AfkEnd(afk) == afk.timestamp + afk.duration * MsPerSec

\* events.js:13-19  the end of the task: stored for a closed task, the clock
\* for a running one
\* (variant: the stored duration also for a running task)
SwEndCached(swEvent, clock) == swEvent.timestamp + swEvent.duration * MsPerSec
\* (variant: the clock for every task, closed or running)
SwEndNow(swEvent, clock) == clock
\* (variant: a stored duration of 0 taken for a running task, as api.js:64 tests)
SwEndZeroIsRunning(swEvent, clock) ==
    IF swEvent.running \/ swEvent.duration = 0
    THEN clock
    ELSE swEvent.timestamp + swEvent.duration * MsPerSec
SwEnd(swEvent, clock) ==
    IF swEvent.running
    THEN clock
    ELSE swEvent.timestamp + swEvent.duration * MsPerSec

\* events.js:22-26  the AFK events that overlap [swStart, swEnd)
\* (variant: only the AFK events strictly inside the task)
OverlappingAfkInside(afks, swStart, swEnd) ==
    SelectSeq(afks, LAMBDA afk : afk.timestamp > swStart /\ AfkEnd(afk) < swEnd)
OverlappingAfk(afks, swStart, swEnd) ==
    SelectSeq(afks, LAMBDA afk : afk.timestamp < swEnd /\ AfkEnd(afk) > swStart)

\* events.js:29-39  the set of split points
SplitPoints(overlappingAfk, swStart, swEnd) ==
    {swStart, swEnd}
    \cup {overlappingAfk[k].timestamp : k \in
            {j \in DOMAIN overlappingAfk :
                /\ overlappingAfk[j].timestamp > swStart
                /\ overlappingAfk[j].timestamp < swEnd}}
    \cup {AfkEnd(overlappingAfk[k]) : k \in
            {j \in DOMAIN overlappingAfk :
                /\ AfkEnd(overlappingAfk[j]) > swStart
                /\ AfkEnd(overlappingAfk[j]) < swEnd}}

\* events.js:41  Array.from(splitPoints).sort((a, b) => a - b)
RECURSIVE SortedSplitPoints(_)
SortedSplitPoints(S) ==
    IF S = {} THEN <<>>
    ELSE LET m == CHOOSE x \in S : \A y \in S : x <= y
         IN  <<m>> \o SortedSplitPoints(S \ {m})

\* events.js:59  .sort((a, b) => b.timestamp - a.timestamp): Array.prototype.sort
\* is stable, here as an insertion sort that keeps equal timestamps in order
RECURSIVE InsertByTimestampDesc(_, _)
InsertByTimestampDesc(sorted, afk) ==
    IF sorted = <<>> THEN <<afk>>
    ELSE IF Head(sorted).timestamp >= afk.timestamp
         THEN <<Head(sorted)>> \o InsertByTimestampDesc(Tail(sorted), afk)
         ELSE <<afk>> \o sorted

RECURSIVE InsertByTimestampAsc(_, _)
InsertByTimestampAsc(sorted, afk) ==
    IF sorted = <<>> THEN <<afk>>
    ELSE IF Head(sorted).timestamp <= afk.timestamp
         THEN <<Head(sorted)>> \o InsertByTimestampAsc(Tail(sorted), afk)
         ELSE <<afk>> \o sorted

RECURSIVE SortByTimestampAsc(_)
SortByTimestampAsc(afks) ==
    IF afks = <<>> THEN <<>>
    ELSE InsertByTimestampAsc(SortByTimestampAsc(SubSeq(afks, 1, Len(afks) - 1)),
                              afks[Len(afks)])

RECURSIVE SortByTimestampDesc(_)
SortByTimestampDesc(afks) ==
    IF afks = <<>> THEN <<>>
    ELSE InsertByTimestampDesc(SortByTimestampDesc(SubSeq(afks, 1, Len(afks) - 1)),
                               afks[Len(afks)])

\* events.js:50  segmentStart + (segmentEnd - segmentStart) / 2
SegmentMidpoint(segmentStart, segmentEnd) ==
    segmentStart + (segmentEnd - segmentStart) \div 2

\* (variant: the covering AFK events sorted earliest start first)
CoveringAfkEarliest(overlappingAfk, segmentMidpoint) ==
    SortByTimestampAsc(
        SelectSeq(overlappingAfk, LAMBDA afk :
            segmentMidpoint >= afk.timestamp /\ segmentMidpoint < AfkEnd(afk)))

\* events.js:53-59  the AFK events covering the midpoint, latest start first
CoveringAfk(overlappingAfk, segmentMidpoint) ==
    SortByTimestampDesc(
        SelectSeq(overlappingAfk, LAMBDA afk :
            segmentMidpoint >= afk.timestamp /\ segmentMidpoint < AfkEnd(afk)))

\* events.js:61-64  status of a raw segment: that of coveringAfk[0], else 'not-afk'
\* (variant: 'afk' when nothing covers the midpoint)
StatusDefaultAfk(covering) ==
    IF covering # <<>> THEN covering[1].status ELSE "afk"
Status(covering) ==
    IF covering # <<>> THEN covering[1].status ELSE "not-afk"

\* events.js:43-71  the raw segments between consecutive split points, from
\* index i on
RECURSIVE RawSegments(_, _, _)
RawSegments(sortedSplitPoints, overlappingAfk, i) ==
    IF i > Len(sortedSplitPoints) - 1 THEN <<>>
    ELSE LET segmentStart == sortedSplitPoints[i]
             segmentEnd   == sortedSplitPoints[i + 1]
             rest == RawSegments(sortedSplitPoints, overlappingAfk, i + 1)
         IN  IF segmentEnd <= segmentStart THEN rest
             ELSE <<[startTimestamp |-> segmentStart,
                     duration |-> (segmentEnd - segmentStart) \div MsPerSec,
                     status |-> Status(CoveringAfk(overlappingAfk,
                                   SegmentMidpoint(segmentStart, segmentEnd)))]>>
                  \o rest

\* events.js:78-89  the merge loop: segments[i..] folded into currentSegment
RECURSIVE MergeLoop(_, _, _, _)
MergeLoop(segments, i, currentSegment, mergedSegments) ==
    IF i > Len(segments) THEN Append(mergedSegments, currentSegment)
    ELSE LET nextSegment == segments[i]
         IN  IF nextSegment.status = currentSegment.status
             THEN MergeLoop(segments, i + 1,
                            [currentSegment EXCEPT
                                !.duration = @ + nextSegment.duration],
                            mergedSegments)
             ELSE MergeLoop(segments, i + 1, nextSegment,
                            Append(mergedSegments, currentSegment))

\* (variant of the merge loop without "currentSegment.duration += ...")
RECURSIVE MergeLoopNoExtend(_, _, _, _)
MergeLoopNoExtend(segments, i, currentSegment, mergedSegments) ==
    IF i > Len(segments) THEN Append(mergedSegments, currentSegment)
    ELSE LET nextSegment == segments[i]
         IN  IF nextSegment.status = currentSegment.status
             THEN MergeLoopNoExtend(segments, i + 1, currentSegment, mergedSegments)
             ELSE MergeLoopNoExtend(segments, i + 1, nextSegment,
                                    Append(mergedSegments, currentSegment))

\* events.js:73-90  merge consecutive segments with the same status
\* (variant: nothing is merged)
MergeNothing(segments) == segments
\* (variant: a merged run keeps the duration of its first segment)
MergeNoExtend(segments) ==
    IF Len(segments) > 0
    THEN MergeLoopNoExtend(segments, 2, segments[1], <<>>)
    ELSE <<>>
MergedSegments(segments) ==
    IF Len(segments) > 0
    THEN MergeLoop(segments, 2, segments[1], <<>>)
    ELSE <<>>

\* events.js:12-92  the body of the map callback: the segments of one task
ActivitySegments(swEvent, afks, clock) ==
    LET swStart == swEvent.timestamp
        swEnd == SwEnd(swEvent, clock)
        overlappingAfk == OverlappingAfk(afks, swStart, swEnd)
        sortedSplitPoints ==
            SortedSplitPoints(SplitPoints(overlappingAfk, swStart, swEnd))
    IN  MergedSegments(RawSegments(sortedSplitPoints, overlappingAfk, 1))


\* (variant: the segments computed once, for the first event, and attached to all)
calculateFromFirst(swEvents, afks, clock) ==
    [i \in DOMAIN swEvents |->
        [swEvents[i] EXCEPT
            !.activitySegments = ActivitySegments(swEvents[1], afks, clock),
            !.hasSegments = TRUE]]

\* events.js:10-95  calculateActivitySegments: every event of the argument
\* gets its activitySegments; the objects of the argument are the ones returned
calculateActivitySegments(swEvents, afks, clock) ==
    [i \in DOMAIN swEvents |->
        [swEvents[i] EXCEPT
            !.activitySegments = ActivitySegments(swEvents[i], afks, clock),
            !.hasSegments = TRUE]]

\* ------------------------------------------------- the grouping engine
\* (src/js/panelManager.js, groupWindowWatcherEvents).  A window sample is a
\* record [id, bucket, timestamp, duration, app, title]; id stands for the
\* identity of the JavaScript object.

\* panelManager.js:381  e.bucket.startsWith('aw-watcher-window')
IsWindowBucket(bucket) == bucket \in {"aw-watcher-window", "aw-watcher-window_host"}

\* panelManager.js:381  events.filter(...).sort((a, b) => a.timestamp - b.timestamp)
WindowEvents(events) ==
    SortByTimestampAsc(SelectSeq(events, LAMBDA e : IsWindowBucket(e.bucket)))

\* panelManager.js:403  event.timestamp.getTime() + event.duration * 1000
EventEnd(event) == event.timestamp + event.duration * MsPerSec

\* utils.js normalizeTitle is not part of the sources at hand; the titles are
\* the keys of titleDurations as they are
NormalizeTitle(title) == title

\* panelManager.js:431  titleDurations.set(title, (titleDurations.get(title) || 0) + d)
TitleAdd(titleDurations, title, d) ==
    [t \in DOMAIN titleDurations \cup {title} |->
        IF t = title
        THEN (IF title \in DOMAIN titleDurations THEN titleDurations[title] ELSE 0) + d
        ELSE titleDurations[t]]

\* panelManager.js:391-398, 435-442  a group opened with one event.  app is
\* the app of a clean group; the label a filler group gets as app (line 542)
\* is kept in appLabel
NewGroup(event) ==
    [app |-> event.app,
     appLabel |-> <<>>,
     startTime |-> event.timestamp,
     totalDuration |-> event.duration,
     titleDurations |-> [t \in {NormalizeTitle(event.title)} |-> event.duration],
     events |-> <<event>>,
     endTime |-> EventEnd(event),
     uniqueApps |-> 0,
     id |-> <<>>]

\* panelManager.js:413-419  the longer one of two overlapping events is kept
\* (variant: the new event always replaces the last one)
KeepLongerAlwaysNew(currentGroup, lastEvent, event) ==
    [currentGroup EXCEPT
        !.totalDuration = @ - lastEvent.duration + event.duration,
        !.events[Len(currentGroup.events)] = event,
        !.endTime = EventEnd(event)]
KeepLonger(currentGroup, lastEvent, event) ==
    IF event.duration > lastEvent.duration
    THEN [currentGroup EXCEPT
            !.totalDuration = @ - lastEvent.duration + event.duration,
            !.events[Len(currentGroup.events)] = event,
            !.endTime = EventEnd(event)]
    ELSE currentGroup

\* panelManager.js:425-431  the event joins the current group
\* (variant: the title's entry is set to the event's duration, not added to)
AddToGroupTitleSet(currentGroup, event) ==
    [currentGroup EXCEPT
        !.events = Append(@, event),
        !.totalDuration = @ + event.duration,
        !.endTime = EventEnd(event),
        !.titleDurations =
            [t \in DOMAIN @ \cup {NormalizeTitle(event.title)} |->
                IF t = NormalizeTitle(event.title) THEN event.duration ELSE @[t]]]
AddToGroup(currentGroup, event) ==
    [currentGroup EXCEPT
        !.events = Append(@, event),
        !.totalDuration = @ + event.duration,
        !.endTime = EventEnd(event),
        !.titleDurations = TitleAdd(@, NormalizeTitle(event.title), event.duration)]

\* panelManager.js:405  the event continues the current group
\* (variant: only without a time gap after the group's last event)
SameGroupNoGap(currentGroup, event) ==
    /\ event.app = currentGroup.app
    /\ event.timestamp <= EventEnd(currentGroup.events[Len(currentGroup.events)])
SameGroup(currentGroup, event) == event.app = currentGroup.app

\* panelManager.js:400-446  the walk over windowEvents from index i on (the
\* loop starts at the first event, which already opened currentGroup);
\* warnings counts the calls of console.warn
RECURSIVE CleanWalk(_, _, _, _, _)
CleanWalk(windowEvents, i, currentGroup, groups, warnings) ==
    IF i > Len(windowEvents)
    THEN [groups |-> Append(groups, currentGroup), warnings |-> warnings]
    ELSE LET event == windowEvents[i]
             lastEvent == currentGroup.events[Len(currentGroup.events)]
         IN  IF SameGroup(currentGroup, event)
             THEN IF event.timestamp < EventEnd(lastEvent)
                  THEN CleanWalk(windowEvents, i + 1,
                                 KeepLonger(currentGroup, lastEvent, event),
                                 groups, warnings + 1)
                  ELSE CleanWalk(windowEvents, i + 1,
                                 AddToGroup(currentGroup, event),
                                 groups, warnings)
             ELSE CleanWalk(windowEvents, i + 1, NewGroup(event),
                            Append(groups, currentGroup), warnings)

\* panelManager.js:449  groups.filter(group => group.events.length > 1)
CleanGroups(groups) == SelectSeq(groups, LAMBDA group : Len(group.events) > 1)

\* panelManager.js:450-452  the events no clean group holds
UsedEvents(cleanGroups) ==
    UNION {{cleanGroups[g].events[k].id : k \in DOMAIN cleanGroups[g].events} :
              g \in DOMAIN cleanGroups}
NotUsedInGrouping(windowEvents, cleanGroups) ==
    SelectSeq(windowEvents, LAMBDA event : event.id \notin UsedEvents(cleanGroups))

\* panelManager.js:455-456  the global timeline
MinTime(windowEvents) == windowEvents[1].timestamp
MaxTimeOfLast(windowEvents) == EventEnd(windowEvents[Len(windowEvents)])

\* panelManager.js:466-472  the holes between consecutive clean groups, from
\* index i on
RECURSIVE HolesBetween(_, _)
HolesBetween(cleanGroups, i) ==
    IF i > Len(cleanGroups) - 1 THEN <<>>
    ELSE LET endPrev == cleanGroups[i].endTime
             startNext == cleanGroups[i + 1].startTime
         IN  (IF endPrev < startNext
              THEN <<[start |-> endPrev, end |-> startNext]>>
              ELSE <<>>)
             \o HolesBetween(cleanGroups, i + 1)

\* panelManager.js:459-481  the holes
Holes(cleanGroups, minTime, maxTime) ==
    IF Len(cleanGroups) > 0
    THEN (IF minTime < cleanGroups[1].startTime
          THEN <<[start |-> minTime, end |-> cleanGroups[1].startTime]>>
          ELSE <<>>)
         \o HolesBetween(cleanGroups, 1)
         \o (LET lastEnd == cleanGroups[Len(cleanGroups)].endTime
             IN  IF lastEnd < maxTime
                 THEN <<[start |-> lastEnd, end |-> maxTime]>>
                 ELSE <<>>)
    ELSE <<[start |-> minTime, end |-> maxTime]>>

\* panelManager.js:486-490  the unused events that intersect the hole
HoleEvents(notUsedInGrouping, hole) ==
    SortByTimestampAsc(
        SelectSeq(notUsedInGrouping, LAMBDA e :
            e.timestamp < hole.end /\ EventEnd(e) > hole.start))

\* panelManager.js:504-528  the walk over holeEvents from index i on
RECURSIVE DirtyWalk(_, _, _, _)
DirtyWalk(holeEvents, i, currentDirty, warnings) ==
    IF i > Len(holeEvents)
    THEN [group |-> currentDirty, warnings |-> warnings]
    ELSE LET event == holeEvents[i]
             lastEvent == currentDirty.events[Len(currentDirty.events)]
         IN  IF event.timestamp < EventEnd(lastEvent)
             THEN DirtyWalk(holeEvents, i + 1,
                            IF event.duration > lastEvent.duration
                            THEN [currentDirty EXCEPT
                                    !.events[Len(currentDirty.events)] = event]
                            ELSE currentDirty,
                            warnings + 1)
             ELSE DirtyWalk(holeEvents, i + 1,
                            [currentDirty EXCEPT
                                !.events = Append(@, event),
                                !.titleDurations =
                                    TitleAdd(@, NormalizeTitle(event.title),
                                             event.duration)],
                            warnings)

\* utils.js:126-145  formatDuration(seconds): hours, minutes and seconds
SecPerHour == 3600
SecPerMin == 60
formatDuration(seconds) ==
    <<seconds \div SecPerHour, (seconds % SecPerHour) \div SecPerMin,
      seconds % SecPerMin>>

\* panelManager.js:542  app.replace('.exe', '')
StripExe(app) == IF app = "code.exe" THEN "code" ELSE app

\* panelManager.js:537-541  the Map app -> summed duration, in insertion order
RECURSIVE AppDurations(_, _, _)
AppDurations(events, i, appDurations) ==
    IF i > Len(events) THEN appDurations
    ELSE LET e == events[i]
             at == {k \in DOMAIN appDurations : appDurations[k][1] = e.app}
         IN  AppDurations(events, i + 1,
                 IF at = {}
                 THEN Append(appDurations, <<e.app, e.duration>>)
                 ELSE [k \in DOMAIN appDurations |->
                          IF k \in at
                          THEN <<e.app, appDurations[k][2] + e.duration>>
                          ELSE appDurations[k]])

\* panelManager.js:542  .sort((a, b) => b[1] - a[1]), a stable sort
RECURSIVE InsertByDurationDesc(_, _)
InsertByDurationDesc(sorted, entry) ==
    IF sorted = <<>> THEN <<entry>>
    ELSE IF Head(sorted)[2] >= entry[2]
         THEN <<Head(sorted)>> \o InsertByDurationDesc(Tail(sorted), entry)
         ELSE <<entry>> \o sorted
RECURSIVE SortByDurationDesc(_)
SortByDurationDesc(entries) ==
    IF entries = <<>> THEN <<>>
    ELSE InsertByDurationDesc(
             SortByDurationDesc(SubSeq(entries, 1, Len(entries) - 1)),
             entries[Len(entries)])

\* panelManager.js:542  the label of a filler group
AppLabel(events) ==
    LET sorted == SortByDurationDesc(AppDurations(events, 1, <<>>))
    IN  [k \in DOMAIN sorted |->
            <<formatDuration(sorted[k][2]), StripExe(sorted[k][1])>>]

\* panelManager.js:497  the start of a filler group
DirtyStart(holeEvents, hole) == holeEvents[1].timestamp

\* panelManager.js:495-542  the filler group of one hole with events
DirtyGroup(holeEvents, hole, warnings) ==
    LET currentDirty ==
            [NewGroup(holeEvents[1]) EXCEPT
                !.app = "",
                !.startTime = DirtyStart(holeEvents, hole),
                !.endTime = hole.end]
        walked == DirtyWalk(holeEvents, 2, currentDirty, warnings)
    IN  [group |->
            [walked.group EXCEPT
                !.totalDuration =
                    (walked.group.endTime - walked.group.startTime) \div MsPerSec,
                !.uniqueApps =
                    Cardinality({walked.group.events[k].app :
                                    k \in DOMAIN walked.group.events}),
                !.appLabel = AppLabel(walked.group.events)],
         warnings |-> walked.warnings]

\* panelManager.js:484-548  the filler groups of the holes from index i on
RECURSIVE DirtyGroups(_, _, _, _, _)
DirtyGroups(holes, i, notUsedInGrouping, dirtyGroups, warnings) ==
    IF i > Len(holes)
    THEN [groups |-> dirtyGroups, warnings |-> warnings]
    ELSE LET holeEvents == HoleEvents(notUsedInGrouping, holes[i])
         IN  IF Len(holeEvents) = 0
             THEN DirtyGroups(holes, i + 1, notUsedInGrouping, dirtyGroups, warnings)
             ELSE LET dirty == DirtyGroup(holeEvents, holes[i], warnings)
                  IN  DirtyGroups(holes, i + 1, notUsedInGrouping,
                          IF Len(dirty.group.events) > 1
                          THEN Append(dirtyGroups, dirty.group)
                          ELSE dirtyGroups,
                          dirty.warnings)

\* panelManager.js:550-558  the ids: position, number of events and, for a
\* filler group, number of apps
WithGroupIds(allGroups) ==
    [idx \in DOMAIN allGroups |->
        [allGroups[idx] EXCEPT
            !.id = IF allGroups[idx].uniqueApps # 0
                   THEN <<idx, Len(allGroups[idx].events), allGroups[idx].uniqueApps>>
                   ELSE <<idx, Len(allGroups[idx].events)>>]]

\* panelManager.js:379-561  groupWindowWatcherEvents: the groups returned, with
\* the holes computed on the way and the number of warnings logged
groupWindowWatcherEvents(events) ==
    LET windowEvents == WindowEvents(events)
    IN  IF Len(windowEvents) = 0
        THEN [called |-> TRUE, allGroups |-> <<>>, holes |-> <<>>, warnings |-> 0]
        ELSE LET walked == CleanWalk(windowEvents, 1, NewGroup(windowEvents[1]),
                                     <<>>, 0)
                 cleanGroups == CleanGroups(walked.groups)
                 notUsedInGrouping == NotUsedInGrouping(windowEvents, cleanGroups)
                 holes == Holes(cleanGroups, MinTime(windowEvents),
                                MaxTimeOfLast(windowEvents))
                 dirty == DirtyGroups(holes, 1, notUsedInGrouping, <<>>,
                                      walked.warnings)
             IN  [called |-> TRUE,
                  allGroups |-> WithGroupIds(cleanGroups \o dirty.groups),
                  holes |-> holes,
                  warnings |-> dirty.warnings]

\* ------------------------------------------------- the report generator
\* (src/unnamed/part_004, generateTaskReport).  An event of the argument is a
\* record [bucket, label, hasSegments, activitySegments]; the Map taskMap is
\* the sequence of its values in insertion order.  startDate and endDate of a
\* task are computed by the code and never read, and are left out.

\* part_004:33  toISOString().split('T')[0]: the UTC day of an instant
MsPerDay == 86400000
SegmentDate(segment) == segment.startTimestamp \div MsPerDay

\* part_004:12  e.bucket.startsWith('aw-stopwatch') && e.activitySegments
IsStopwatchBucket(bucket) == bucket \in {"aw-stopwatch"}
StopwatchEvents(events) ==
    SelectSeq(events, LAMBDA e : IsStopwatchBucket(e.bucket) /\ e.hasSegments)

\* part_004:16  swEvent.data.label || 'Untitled'
TaskLabel(swEvent) == IF swEvent.label = "" THEN "Untitled" ELSE swEvent.label

\* part_004:18-26  the entry a label gets when it is first seen
NewTask(label) == [label |-> label, totalCleanTime |-> 0, dailyBreakdown |-> <<>>]
HasTask(taskMap, label) == \E k \in DOMAIN taskMap : taskMap[k].label = label
TaskIndex(taskMap, label) == CHOOSE k \in DOMAIN taskMap : taskMap[k].label = label

\* part_004:34  dailyBreakdown.set(date, (dailyBreakdown.get(date) || 0) + d)
DayAdd(dailyBreakdown, date, d) ==
    [day \in DOMAIN dailyBreakdown \cup {date} |->
        IF day = date
        THEN (IF date \in DOMAIN dailyBreakdown THEN dailyBreakdown[date] ELSE 0) + d
        ELSE dailyBreakdown[day]]

\* part_004:31  segment.status === 'not-afk'
\* (variant: every segment counts)
IsCleanAnyStatus(segment) == TRUE
IsClean(segment) == segment.status = "not-afk"

\* part_004:30-37  the segments of one event, from index i on, added to the task
RECURSIVE AddSegments(_, _, _)
AddSegments(task, segments, i) ==
    IF i > Len(segments) THEN task
    ELSE LET segment == segments[i]
         IN  AddSegments(
                 IF IsClean(segment)
                 THEN [task EXCEPT
                         !.totalCleanTime = @ + segment.duration,
                         !.dailyBreakdown =
                             DayAdd(@, SegmentDate(segment), segment.duration)]
                 ELSE task,
                 segments, i + 1)

\* part_004:15-47  the loop over the stopwatch events, from index i on
RECURSIVE TaskMapLoop(_, _, _)
TaskMapLoop(swEvents, i, taskMap) ==
    IF i > Len(swEvents) THEN taskMap
    ELSE LET swEvent == swEvents[i]
             label == TaskLabel(swEvent)
             withTask == IF HasTask(taskMap, label) THEN taskMap
                         ELSE Append(taskMap, NewTask(label))
             k == TaskIndex(withTask, label)
         IN  TaskMapLoop(swEvents, i + 1,
                 [withTask EXCEPT
                     ![k] = AddSegments(@, swEvent.activitySegments, 1)])

\* utils.js:126-145  formatDuration(seconds, false): hours and minutes
formatDurationNoSeconds(seconds) ==
    <<seconds \div SecPerHour, (seconds % SecPerHour) \div SecPerMin>>

\* part_004:52  the days of a breakdown in ascending order
RECURSIVE SortedDays(_)
SortedDays(days) ==
    IF days = {} THEN <<>>
    ELSE LET first == CHOOSE d \in days : \A other \in days : d <= other
         IN  <<first>> \o SortedDays(days \ {first})

\* part_004:50-66  the row of one task: the days are formatted
ReportRow(task) ==
    LET days == SortedDays(DOMAIN task.dailyBreakdown)
    IN  [label |-> task.label,
         totalCleanTimeFormatted |-> formatDurationNoSeconds(task.totalCleanTime),
         totalCleanTimeRaw |-> task.totalCleanTime,
         dailyBreakdown |->
             [k \in DOMAIN days |->
                 <<days[k], formatDurationNoSeconds(task.dailyBreakdown[days[k]])>>]]

\* part_004:68  report.sort((a, b) => b.totalCleanTimeRaw - a.totalCleanTimeRaw)
RECURSIVE InsertByTotalDesc(_, _)
InsertByTotalDesc(sorted, row) ==
    IF sorted = <<>> THEN <<row>>
    ELSE IF Head(sorted).totalCleanTimeRaw >= row.totalCleanTimeRaw
         THEN <<Head(sorted)>> \o InsertByTotalDesc(Tail(sorted), row)
         ELSE <<row>> \o sorted
RECURSIVE SortByTotalDesc(_)
SortByTotalDesc(rows) ==
    IF rows = <<>> THEN <<>>
    ELSE InsertByTotalDesc(SortByTotalDesc(SubSeq(rows, 1, Len(rows) - 1)),
                           rows[Len(rows)])

\* part_004:9-69  generateTaskReport: the rows returned, with the taskMap
\* built on the way
generateTaskReport(events) ==
    LET taskMap == TaskMapLoop(StopwatchEvents(events), 1, <<>>)
    IN  [called |-> TRUE,
         taskMap |-> taskMap,
         report |-> SortByTotalDesc([k \in DOMAIN taskMap |-> ReportRow(taskMap[k])])]

\* ------------------------------------------------- the event store client
\* (src/js/api.js, fetchEventsForBucket, and its revision in
\* src/unnamed/part_012).  A stored task event is a record [timestamp,
\* duration, running]; the ISO string of its timestamp and the Date made of
\* it are the same instant in milliseconds.

\* api.js:64-68  the duration of a running event whose stored duration is 0
\* is recomputed from the clock
ProcessedDuration(d, clock) ==
    IF d.running /\ d.duration = 0
    THEN (clock - d.timestamp) \div MsPerSec
    ELSE d.duration

\* part_012:93-97  the duration of every running event is recomputed
ProcessedDurationOfRunning(d, clock) ==
    IF d.running
    THEN (clock - d.timestamp) \div MsPerSec
    ELSE d.duration

\* api.js:62-74  events.map(...): the bucket name is added
ProcessedEvents(events, bucketName, clock) ==
    [i \in DOMAIN events |->
        [timestamp |-> events[i].timestamp,
         duration |-> ProcessedDuration(events[i], clock),
         running |-> events[i].running,
         bucket |-> bucketName]]

\* part_012:92-103  the same in the revision
ProcessedEventsOfRevision(events, bucketName, clock) ==
    [i \in DOMAIN events |->
        [timestamp |-> events[i].timestamp,
         duration |-> ProcessedDurationOfRunning(events[i], clock),
         running |-> events[i].running,
         bucket |-> bucketName]]

\* api.js:52-80  fetchEventsForBucket: the processed events, or the empty
\* list when the request fails
fetchEventsForBucket(events, bucketName, clock, ok) ==
    [called |-> TRUE, clock |-> clock,
     events |-> IF ok THEN ProcessedEvents(events, bucketName, clock) ELSE <<>>]

\* part_012:80-109  fetchEventsForBucket of the revision
fetchEventsForBucketOfRevision(events, bucketName, clock, ok) ==
    [called |-> TRUE, clock |-> clock,
     events |-> IF ok THEN ProcessedEventsOfRevision(events, bucketName, clock)
                ELSE <<>>]

\* the store hands out the events of a bucket in an order of its own: here
\* by timestamp, then duration, then running
StoreKey(e) == ((e.timestamp \div MsPerSec) * (MaxTime + 2) + e.duration) * 2
               + (IF e.running THEN 1 ELSE 0)
RECURSIVE InsertInStore(_, _)
InsertInStore(events, e) ==
    IF events = <<>> THEN <<e>>
    ELSE IF StoreKey(Head(events)) <= StoreKey(e)
         THEN <<Head(events)>> \o InsertInStore(Tail(events), e)
         ELSE <<e>> \o events
\* the store gives every event an id
WithStoreIds(events) ==
    [i \in DOMAIN events |->
        [id |-> i, timestamp |-> events[i].timestamp,
         duration |-> events[i].duration, running |-> events[i].running]]
RemoveFromStore(events, i) ==
    SubSeq(events, 1, i - 1) \o SubSeq(events, i + 1, Len(events))

\* ------------------------------------------------- loading the events
\* (src/js/main.js, loadAndProcessEvents).  A fetched event is a record [id,
\* bucket, timestamp, duration, running, status, hasSegments,
\* activitySegments]; running is read of task events and status of presence
\* events only.

\* main.js:64-67, state.js:90-92  getAfkBucketId()
AfkBucketId == "aw-watcher-afk_host"

\* main.js:43  processedEvents.find(p => p.id === event.id): the first match
FindById(processed, id) ==
    LET matches == {k \in DOMAIN processed : processed[k].id = id}
    IN  IF matches = {} THEN <<>>
        ELSE <<processed[CHOOSE k \in matches : \A l \in matches : k <= l]>>

\* main.js:33-46  loadAndProcessEvents, from the events fetched on: every event
\* is replaced by the processed event of the same id, if there is one
loadAndProcessEvents(fetched, clock) ==
    LET swEvents == SelectSeq(fetched, LAMBDA e : IsStopwatchBucket(e.bucket))
        afks == SelectSeq(fetched, LAMBDA e : e.bucket = AfkBucketId)
        processed == calculateActivitySegments(swEvents, afks, clock)
    IN  [i \in DOMAIN fetched |->
            LET found == FindById(processed, fetched[i].id)
            IN  IF found # <<>> THEN found[1] ELSE fetched[i]]

\* ------------------------------------------------------------ the inputs
Horizon == MaxTime * MsPerSec
ClockEnd == Horizon + MsPerSec
AfkInstants == {k * MsPerSec : k \in 0..MaxTime}
Instants == {k * MsPerSec : k \in 0..(MaxTime + 1)}
StatusValues == {"afk", "not-afk"}

\* presence events: every interval of whole seconds inside 0 .. MaxTime
AfkEventValues ==
    {a \in [timestamp : AfkInstants, duration : 0..MaxTime, status : StatusValues] :
        AfkEnd(a) <= Horizon}

\* task events as the store client hands them over, before the engine ran:
\* activitySegments is undefined (hasSegments = FALSE)
SwEventValues ==
    {e \in [id : {0}, timestamp : Instants, duration : 0..(MaxTime + 1),
            running : BOOLEAN, hasSegments : {FALSE}, activitySegments : {<<>>}] :
        e.timestamp + e.duration * MsPerSec <= ClockEnd}

SeqsUpTo(S, n) == UNION {[1..k -> S] : k \in 0..n}

\* the event objects get their position in the pool as id
WithIds(evs) == [i \in DOMAIN evs |-> [evs[i] EXCEPT !.id = i]]

\* pools of task events, one per multiset of events (the calls choose the order)
SwKey(e) == ((e.timestamp \div MsPerSec) * (MaxTime + 2) + e.duration) * 2
            + (IF e.running THEN 1 ELSE 0)
SwEventPools(n) ==
    {WithIds(p) : p \in {q \in SeqsUpTo(SwEventValues, n) :
        \A i \in 1..(Len(q) - 1) : SwKey(q[i]) <= SwKey(q[i + 1])}}

\* the lists of distinct positions of a pool of n events
Selections(n) ==
    {sel \in SeqsUpTo(1..n, n) :
        \A i, j \in DOMAIN sel : i # j => sel[i] # sel[j]}

NoCall == [called |-> FALSE, clock |-> 0, arg |-> <<>>, ret |-> <<>>]

\* the same for the other functions of the model: not called yet, no input
NoGroups == [called |-> FALSE, allGroups |-> <<>>, holes |-> <<>>, warnings |-> 0]
NoReport == [called |-> FALSE, taskMap |-> <<>>, report |-> <<>>]
NoFetch == [called |-> FALSE, clock |-> 0, events |-> <<>>]
GroupIdle == allEvents = <<>> /\ windowGroups = NoGroups
ReportIdle == allEventsData = <<>> /\ reportData = NoReport
FetchIdle == bucketEvents = <<>> /\ processedEvents = NoFetch
NoLoad == [called |-> FALSE, clock |-> 0, result |-> <<>>]
LoadIdle == loaded = NoLoad
\* the parts of the user interface are idle
RefreshIdle == refreshes = <<>> /\ timeline = <<>>
NoEvent == [id |-> 0, timestamp |-> 0, duration |-> 0, running |-> FALSE]
NoEdit == [kind |-> "", pc |-> "idle", originalEvent |-> NoEvent,
           durations |-> <<>>, events |-> <<>>, answers |-> <<>>,
           notification |-> "", storeBefore |-> <<>>]
EditIdle == edit = NoEdit
SlotIdle == calendarData = <<>> /\ daySlots = <<>>
NoPanels == [open |-> {}, zoom |-> "none", listeners |-> 0]
NoEscape == [pressed |-> FALSE, before |-> NoPanels, after |-> NoPanels]
PanelIdle == panelState = NoPanels /\ lastEscape = NoEscape
NoView == [currentMonth |-> 0, header |-> 0, grid |-> <<>>, pending |-> <<>>]
ViewIdle == calendarView = NoView
UiIdle ==
    LoadIdle /\ RefreshIdle /\ EditIdle /\ SlotIdle /\ PanelIdle /\ ViewIdle

\* ----------------------------------------------------------- the actions

\* events.js:10-95  one call calculateActivitySegments(argument, afkEvents),
\* the argument being the events of the pool at the positions sel
Call(sel) ==
    LET argument == [k \in DOMAIN sel |-> stopwatchEvents[sel[k]]]
        ret == calculateActivitySegments(argument, afkEvents, now)
    IN  /\ stopwatchEvents' =
               [i \in DOMAIN stopwatchEvents |->
                   IF \E k \in DOMAIN sel : sel[k] = i
                   THEN ret[CHOOSE k \in DOMAIN sel : sel[k] = i]
                   ELSE stopwatchEvents[i]]
        /\ last' = [called |-> TRUE, clock |-> now, arg |-> sel, ret |-> ret]
        /\ prev' = last
        /\ UNCHANGED <<now, afkEvents, groupVars, reportVars, fetchVars, uiVars>>

\* main.js:36-39, calendar.js:116  the engine called on all the task events
Calculate == Call([i \in DOMAIN stopwatchEvents |-> i])

\* events.js:10  the engine called on some of the task events, in some order
CalculateSome == \E sel \in Selections(Len(stopwatchEvents)) : Call(sel)

\* ---------------------------------------------------- the specifications

\* one task event, any presence list: the engine applied to it.  The clock of
\* a running task is anywhere, before its start too (the start of a running
\* task can be edited into the future); a closed task is computed at ClockEnd,
\* when it has ended
Init ==
    /\ stopwatchEvents \in SwEventPools(1) \ {<<>>}
    /\ now \in IF stopwatchEvents[1].running THEN Instants ELSE {ClockEnd}
    /\ afkEvents \in SeqsUpTo(AfkEventValues, MaxAfk)
    /\ last = NoCall
    /\ prev = NoCall
    /\ GroupIdle /\ ReportIdle /\ FetchIdle /\ UiIdle

\* the engine is applied once to the input drawn
Next == ~last.called /\ Calculate

Spec == Init /\ [][Next]_vars

\* events.js:18  new Date() moves on between two calls
Tick ==
    /\ now < ClockEnd
    /\ now' = now + MsPerSec
    /\ UNCHANGED <<stopwatchEvents, afkEvents, last, prev,
                   groupVars, reportVars, fetchVars, uiVars>>

\* one running task event, as created (main.js:165-175: duration 0) with its
\* start inside the presence data, recomputed while the clock advances
InitRun ==
    /\ now = 0
    /\ stopwatchEvents \in {p \in SwEventPools(1) \ {<<>>} :
                               /\ p[1].running
                               /\ p[1].duration = 0
                               /\ p[1].timestamp < Horizon}
    /\ afkEvents \in SeqsUpTo(AfkEventValues, MaxAfk)
    /\ last = NoCall
    /\ prev = NoCall
    /\ GroupIdle /\ ReportIdle /\ FetchIdle /\ UiIdle

NextRun == Tick \/ Calculate

SpecRun == InitRun /\ [][NextRun]_vars

\* the presence stream of one watcher, as the spec describes it: consecutive
\* intervals without gap or overlap, here covering [0, Horizon); parts[i] is
\* the pair <<duration, status>> of the i-th interval
RECURSIVE StartOfPart(_, _)
StartOfPart(parts, i) ==
    IF i = 1 THEN 0
    ELSE StartOfPart(parts, i - 1) + parts[i - 1][1] * MsPerSec
PresenceStream(parts) ==
    [i \in DOMAIN parts |->
        [timestamp |-> StartOfPart(parts, i),
         duration |-> parts[i][1],
         status |-> parts[i][2]]]
PresenceStreams ==
    {<<>>} \cup
    {PresenceStream(parts) :
        parts \in {q \in SeqsUpTo((1..MaxTime) \X StatusValues, MaxTime) :
                     q # <<>> /\ StartOfPart(q, Len(q) + 1) = Horizon}}

\* a pool of task events that lie in the past of the clock (the running ones
\* as created, main.js:165-175: duration 0) and a presence stream, the engine
\* applied to sub-lists of the pool in any order, at the same clock value or
\* at a later one
InitAgg ==
    /\ now = Horizon
    /\ stopwatchEvents \in
           {p \in SwEventPools(MaxTasks) :
               \A i \in DOMAIN p :
                   IF p[i].running
                   THEN p[i].duration = 0 /\ p[i].timestamp <= Horizon
                   ELSE p[i].timestamp + p[i].duration * MsPerSec <= Horizon}
    /\ afkEvents \in PresenceStreams
    /\ last = NoCall
    /\ prev = NoCall
    /\ GroupIdle /\ ReportIdle /\ FetchIdle /\ UiIdle

\* two calls are compared: the first one on the whole pool, the second one on
\* any sub-list of it in any order; the clock may move on before each of them
NextAgg ==
    \/ ~prev.called /\ Tick
    \/ ~last.called /\ Calculate
    \/ last.called /\ ~prev.called /\ CalculateSome

SpecAgg == InitAgg /\ [][NextAgg]_vars

\* ---- the grouping engine applied to a list of events (specification SpecGroup)

AppNames == {"code.exe", "firefox"}
Titles == {"t1", "t2"}

\* window samples: whole seconds, start and duration within 0 .. MaxTime
SampleValues(apps, titles) ==
    [id : {0}, bucket : {"aw-watcher-window_host"}, timestamp : AfkInstants,
     duration : 0..MaxTime, app : apps, title : titles]

\* an event of another bucket, which the engine has to leave aside
OtherEvent ==
    [id |-> 0, bucket |-> "aw-stopwatch", timestamp |-> 0, duration |-> 1,
     app |-> "", title |-> ""]

\* the lists of k samples of S whose timestamps do not decrease
SortedLists(S, k) ==
    {f \in [1..k -> S] : \A i \in 1..(k - 1) : f[i].timestamp <= f[i + 1].timestamp}

Reverse(seq) == [i \in DOMAIN seq |-> seq[Len(seq) + 1 - i]]

\* the arguments of the grouping engine: up to n samples of two apps in
\* timestamp order, samples of one app with two titles, and for the shorter
\* ones of these lists also the list in reverse order (the order in which the
\* store returns events) and the list behind an event of another bucket
MaxShuffled == MaxSamples - 2
ShortLists ==
    UNION {SortedLists(SampleValues(AppNames, {"t1"}), k)
           \cup SortedLists(SampleValues({"firefox"}, Titles), k) :
              k \in 0..MaxShuffled}
AllEventsValues(n) ==
    \/ \E k \in 0..n :
           \E l \in SortedLists(SampleValues(AppNames, {"t1"}), k) :
               allEvents = WithIds(l)
    \/ \E k \in 0..(MaxSamples - 1) :
           \E l \in SortedLists(SampleValues({"firefox"}, Titles), k) :
               allEvents = WithIds(l)
    \/ \E l \in ShortLists : allEvents = WithIds(Reverse(l))
    \/ \E l \in ShortLists : allEvents = WithIds(<<OtherEvent>> \o l)

\* panelManager.js:379-561  one call groupWindowWatcherEvents(allEvents)
Group ==
    /\ windowGroups' = groupWindowWatcherEvents(allEvents)
    /\ UNCHANGED <<now, stopwatchEvents, afkEvents, last, prev, allEvents,
                   reportVars, fetchVars, uiVars>>

\* the engine is idle while the grouping engine is looked at
EngineIdle ==
    /\ now = 0
    /\ stopwatchEvents = <<>>
    /\ afkEvents = <<>>
    /\ last = NoCall
    /\ prev = NoCall

\* lists of up to MaxSamples events
InitGroup ==
    /\ EngineIdle
    /\ AllEventsValues(MaxSamples)
    /\ windowGroups = NoGroups
    /\ ReportIdle /\ FetchIdle /\ UiIdle

NextGroup == Group

SpecGroup == InitGroup /\ [][NextGroup]_vars

\* lists of up to MaxSamples - 1 events that end within the seconds 0 .. MaxTime
InitGroupSmall ==
    /\ EngineIdle
    /\ AllEventsValues(MaxSamples - 1)
    /\ \A i \in DOMAIN allEvents : EventEnd(allEvents[i]) <= Horizon
    /\ windowGroups = NoGroups
    /\ ReportIdle /\ FetchIdle /\ UiIdle

SpecGroupSmall == InitGroupSmall /\ [][NextGroup]_vars

\* ---- the report generator on its own: one call generateTaskReport(allEventsData)

\* labels: none, the literal 'Untitled', and another one
ReportLabels == {"", "Untitled", "a"}
\* a task starts at the epoch or one second before the end of its first day
SegmentStarts == {0, MsPerDay - MsPerSec}
OtherStatus(status) == IF status = "afk" THEN "not-afk" ELSE "afk"
\* segment lists as the segment engine builds them: gapless, of positive
\* durations, neighbours of different status; none, one or two segments
SegmentLists ==
    {<<>>}
    \cup {<<[startTimestamp |-> t, duration |-> d, status |-> st]>> :
             t \in SegmentStarts, d \in 1..MaxTime, st \in StatusValues}
    \cup {<<[startTimestamp |-> t, duration |-> d, status |-> st],
            [startTimestamp |-> t + d * MsPerSec, duration |-> 1,
             status |-> OtherStatus(st)]>> :
             t \in SegmentStarts, d \in 1..MaxTime, st \in StatusValues}
\* the events handed to the report: tasks the engine has processed, a task
\* it has not, and an event of another bucket
ReportEventValues ==
    [bucket : {"aw-stopwatch"}, label : ReportLabels, hasSegments : {TRUE},
     activitySegments : SegmentLists]
    \cup [bucket : {"aw-stopwatch"}, label : ReportLabels, hasSegments : {FALSE},
          activitySegments : {<<>>}]
    \cup [bucket : {"aw-watcher-afk_host"}, label : {""}, hasSegments : {FALSE},
          activitySegments : {<<>>}]

\* part_004:9-69  one call generateTaskReport(allEventsData)
Report ==
    /\ reportData' = generateTaskReport(allEventsData)
    /\ UNCHANGED <<now, stopwatchEvents, afkEvents, last, prev, groupVars,
                   allEventsData, fetchVars, uiVars>>

InitReport ==
    /\ EngineIdle
    /\ GroupIdle
    /\ FetchIdle
    /\ UiIdle
    /\ \E k \in 0..MaxTasks : \E l \in [1..k -> ReportEventValues] : allEventsData = l
    /\ reportData = NoReport

NextReport == Report

SpecReport == InitReport /\ [][NextReport]_vars

\* ---- the store client: fetches, and the Save of the edit panel in between

\* stored task events: a running event is created with duration 0
\* (main.js:165-175), a closed one has any duration
StoredEventValues ==
    {e \in [timestamp : AfkInstants, duration : 0..MaxTime, running : BOOLEAN] :
        e.running => e.duration = 0}
Stores(n) ==
    {l \in SeqsUpTo(StoredEventValues, n) :
        \A i \in 1..(Len(l) - 1) : StoreKey(l[i]) <= StoreKey(l[i + 1])}

\* api.js:52-80  one call fetchEventsForBucket('aw-stopwatch')
Fetch ==
    /\ \E ok \in BOOLEAN :
           processedEvents' = fetchEventsForBucket(bucketEvents, "aw-stopwatch", now, ok)
    /\ UNCHANGED <<now, stopwatchEvents, afkEvents, last, prev, groupVars,
                   reportVars, bucketEvents, uiVars>>

\* part_012:80-109  the same call in the revision
FetchOfRevision ==
    /\ \E ok \in BOOLEAN :
           processedEvents' =
               fetchEventsForBucketOfRevision(bucketEvents, "aw-stopwatch", now, ok)
    /\ UNCHANGED <<now, stopwatchEvents, afkEvents, last, prev, groupVars,
                   reportVars, bucketEvents, uiVars>>

\* calendarRenderer.js:363-439 (not in split mode)  Save: the event shown in
\* the edit panel, one of the processed events, is replaced in the store by an
\* event with the start and the duration of the form and the data of the
\* original, and the events are loaded again (main.js:131-133)
Save ==
    /\ processedEvents.called
    /\ Len(processedEvents.events) = Len(bucketEvents)
    /\ \E i \in DOMAIN processedEvents.events :
       \E newStartTime \in AfkInstants :
       \E newDuration \in 0..MaxTime :
           LET originalEvent == processedEvents.events[i]
               newEvent == [timestamp |-> newStartTime,
                            duration |-> newDuration,
                            running |-> originalEvent.running]
               stored == InsertInStore(RemoveFromStore(bucketEvents, i), newEvent)
           IN  /\ bucketEvents' = stored
               /\ processedEvents' =
                      fetchEventsForBucket(stored, "aw-stopwatch", now, TRUE)
    /\ UNCHANGED <<now, stopwatchEvents, afkEvents, last, prev, groupVars,
                   reportVars, uiVars>>

InitFetch ==
    /\ now = Horizon
    /\ stopwatchEvents = <<>>
    /\ afkEvents = <<>>
    /\ last = NoCall
    /\ prev = NoCall
    /\ GroupIdle
    /\ ReportIdle
    /\ UiIdle
    /\ bucketEvents \in Stores(MaxTasks)
    /\ processedEvents = NoFetch

NextFetch == Tick \/ Fetch \/ FetchOfRevision \/ Save

SpecFetch == InitFetch /\ [][NextFetch]_vars

\* ---- loading: one call loadAndProcessEvents on the events fetched

\* fetched events of three buckets; the store assigns the ids, which differ
\* within a bucket
LoadEventValues ==
    [id : 1..MaxTasks, bucket : {"aw-stopwatch"}, timestamp : {0},
     duration : 1..MaxTime, running : {FALSE}, status : {""},
     hasSegments : {FALSE}, activitySegments : {<<>>}]
    \cup [id : 1..MaxTasks, bucket : {AfkBucketId}, timestamp : AfkInstants,
          duration : {1}, running : {FALSE}, status : StatusValues,
          hasSegments : {FALSE}, activitySegments : {<<>>}]
    \cup [id : 1..MaxTasks, bucket : {"aw-watcher-window_host"}, timestamp : {0},
          duration : {1}, running : {FALSE}, status : {""},
          hasSegments : {FALSE}, activitySegments : {<<>>}]

\* main.js:33-46  one call loadAndProcessEvents, allEvents being the events
\* the fetches returned
Load ==
    /\ loaded' = [called |-> TRUE, clock |-> now,
                  result |-> loadAndProcessEvents(allEvents, now)]
    /\ UNCHANGED <<now, stopwatchEvents, afkEvents, last, prev, groupVars,
                   reportVars, fetchVars, refreshVars, editVars, slotVars,
                   panelVars, viewVars>>

InitLoad ==
    /\ now = Horizon
    /\ stopwatchEvents = <<>>
    /\ afkEvents = <<>>
    /\ last = NoCall
    /\ prev = NoCall
    /\ \E k \in 0..MaxTasks : \E l \in [1..k -> LoadEventValues] : allEvents = l
    /\ \A i, j \in DOMAIN allEvents :
           (i # j /\ allEvents[i].bucket = allEvents[j].bucket)
               => allEvents[i].id # allEvents[j].id
    /\ windowGroups = NoGroups
    /\ ReportIdle
    /\ FetchIdle
    /\ UiIdle

NextLoad == Load

SpecLoad == InitLoad /\ [][NextLoad]_vars

\* ---- refreshes: fetch, recompute, store into the application state, redraw

\* the refreshes that can be under way at a time
MaxRefreshes == 2

\* the stores of the refreshes: task events started at the first instant, each
\* with its id
StoresWithIds(n) ==
    {WithStoreIds(l) : l \in {st \in Stores(n) :
                                 \A i \in DOMAIN st : st[i].timestamp = 0}}

\* api.js:52-80, main.js:34  the fetched events of a response, processed when
\* the response arrives
FetchedEvents(response, clock) ==
    [i \in DOMAIN response |->
        [id |-> response[i].id,
         bucket |-> "aw-stopwatch",
         timestamp |-> response[i].timestamp,
         duration |-> ProcessedDuration(response[i], clock),
         running |-> response[i].running,
         status |-> "",
         hasSegments |-> FALSE,
         activitySegments |-> <<>>]]

\* main.js:33-46  what loadAndProcessEvents makes of a response
Refreshed(response, clock) ==
    loadAndProcessEvents(FetchedEvents(response, clock), clock)

\* timeline.js:445-464  redrawTimeline: the events of the visible buckets
VisibleBuckets == {"aw-stopwatch"}
redrawTimeline(events) ==
    SelectSeq(events, LAMBDA event : event.bucket \in VisibleBuckets)

\* main.js:90-91, 131-132  a refresh starts: loadAndProcessEvents sends the
\* requests
StartedRefresh == [pc |-> "fetching", response |-> <<>>, result |-> <<>>]

\* main.js:89-92  the callback of the bucket filter panel starts a refresh
FilterRefresh ==
    /\ Len(refreshes) < MaxRefreshes
    /\ refreshes' = Append(refreshes, StartedRefresh)
    /\ UNCHANGED <<now, stopwatchEvents, afkEvents, last, prev, groupVars,
                   reportVars, fetchVars, loadVars, timeline, editVars, slotVars,
                   panelVars, viewVars>>

\* calendarRenderer.js:301-314  Delete: the event shown in the edit panel, one
\* of the events of the application state, is deleted from the store, and the
\* callback (main.js:131-134) starts a refresh
DeleteRefresh ==
    /\ Len(refreshes) < MaxRefreshes
    /\ \E i \in DOMAIN allEventsData :
           LET originalEvent == allEventsData[i]
           IN  /\ \E k \in DOMAIN bucketEvents : bucketEvents[k].id = originalEvent.id
               /\ bucketEvents' =
                      SelectSeq(bucketEvents, LAMBDA d : d.id # originalEvent.id)
    /\ refreshes' = Append(refreshes, StartedRefresh)
    /\ UNCHANGED <<now, stopwatchEvents, afkEvents, last, prev, groupVars,
                   reportVars, processedEvents, loadVars, timeline, editVars, slotVars,
                   panelVars, viewVars>>

\* api.js:55-59  the store answers the requests of a refresh
Respond ==
    /\ \E r \in DOMAIN refreshes :
           /\ refreshes[r].pc = "fetching"
           /\ refreshes' = [refreshes EXCEPT ![r].pc = "answered",
                                             ![r].response = bucketEvents]
    /\ UNCHANGED <<now, stopwatchEvents, afkEvents, last, prev, groupVars,
                   reportVars, fetchVars, loadVars, timeline, editVars, slotVars,
                   panelVars, viewVars>>

\* main.js:91-92, 132-133  the answer of a refresh has arrived: the events are
\* processed, stored into the application state, and the timeline is redrawn
Finish ==
    /\ \E r \in DOMAIN refreshes :
           /\ refreshes[r].pc = "answered"
           /\ LET result == Refreshed(refreshes[r].response, now)
              IN  /\ refreshes' = [refreshes EXCEPT ![r].pc = "done",
                                                    ![r].result = result]
                  /\ allEventsData' = result
                  /\ timeline' = redrawTimeline(result)
    /\ UNCHANGED <<now, stopwatchEvents, afkEvents, last, prev, groupVars,
                   reportData, fetchVars, loadVars, editVars, slotVars,
                   panelVars, viewVars>>

\* main.js:100-115  the application has loaded and drawn the events of the store
InitRefresh ==
    /\ now = Horizon
    /\ stopwatchEvents = <<>>
    /\ afkEvents = <<>>
    /\ last = NoCall
    /\ prev = NoCall
    /\ GroupIdle
    /\ bucketEvents \in StoresWithIds(MaxTasks)
    /\ processedEvents = NoFetch
    /\ allEventsData = Refreshed(bucketEvents, now)
    /\ reportData = NoReport
    /\ LoadIdle
    /\ refreshes = <<>>
    /\ timeline = redrawTimeline(allEventsData)
    /\ EditIdle
    /\ SlotIdle
    /\ PanelIdle
    /\ ViewIdle

NextRefresh == FilterRefresh \/ DeleteRefresh \/ Respond \/ Finish

SpecRefresh == InitRefresh /\ [][NextRefresh]_vars

\* ---- the edit panel: Stop and Save (calendarRenderer.js:316-439)

\* the instants the user types into the time inputs of the edit panel
EditInstants == {Horizon - MsPerSec, Horizon}

\* the stores of the edit panel: task events, each with its id
EditEventValues ==
    {e \in [timestamp : AfkInstants, duration : {0, 1}, running : BOOLEAN] :
        e.running <=> e.duration = 0}
EditStores ==
    {WithStoreIds(l) : l \in {st \in SeqsUpTo(EditEventValues, MaxTasks) :
        \A i \in 1..(Len(st) - 1) : StoreKey(st[i]) <= StoreKey(st[i + 1])}}

\* api.js:114-140  how a request to the store ends: done and answered, refused
\* by the store, or done in the store with the answer lost on the way
Outcomes == {"ok", "refused", "lost"}
Applied(outcome) == outcome \in {"ok", "lost"}

InStore(events, id) == \E k \in DOMAIN events : events[k].id = id
MaxId(events) ==
    IF events = <<>> THEN 0
    ELSE CHOOSE m \in {events[k].id : k \in DOMAIN events} :
             \A k \in DOMAIN events : events[k].id <= m

\* api.js:126-140  the store inserts the event under a new id
CreateInStore(events, event) ==
    Append(events, [id |-> MaxId(events) + 1, timestamp |-> event.timestamp,
                    duration |-> event.duration, running |-> event.running])
\* api.js:114-124  the store deletes the event of the id
DeleteInStore(events, id) == SelectSeq(events, LAMBDA d : d.id # id)

\* calendarRenderer.js:322, 367, 372, 396  (end - start) / 1000
DurationBetween(startTime, endTime) ==
    IF endTime >= startTime THEN (endTime - startTime) \div MsPerSec
    ELSE 0 - ((startTime - endTime) \div MsPerSec)

\* calendarRenderer.js:324, 374, 398  the checks that reject an edit
RejectedNever(durations) == FALSE
Rejected(durations) == \E k \in DOMAIN durations : durations[k] < 0

\* calendarRenderer.js:388-391  Promise.all resolves when every creation did
SomeCreated(answers) == \E k \in DOMAIN answers : answers[k] = "ok"
AllCreated(answers) == \A k \in DOMAIN answers : answers[k] = "ok"

\* calendarRenderer.js:336-337, 388-411  where the handler goes on the answer of
\* a creation: a failure throws into the catch block, the last success sends
\* the deletion of the original event
AfterCreationThenDelete(answers, outcome) == "deleting"
AfterCreation(answers, outcome) ==
    IF outcome # "ok" THEN "failed"
    ELSE IF AllCreated(answers) THEN "deleting"
    ELSE "creating"

\* the handler has computed its durations: it returns with a notification or
\* sends the creations
Clicked(kind, originalEvent, events, message) ==
    LET durations == [k \in DOMAIN events |-> events[k].duration]
    IN  IF Rejected(durations)
        THEN [kind |-> kind, pc |-> "rejected", originalEvent |-> originalEvent,
              durations |-> durations, events |-> <<>>, answers |-> <<>>,
              notification |-> message, storeBefore |-> bucketEvents]
        ELSE [kind |-> kind, pc |-> "creating", originalEvent |-> originalEvent,
              durations |-> durations, events |-> events,
              answers |-> [k \in DOMAIN events |-> "pending"],
              notification |-> "", storeBefore |-> bucketEvents]

\* calendarRenderer.js:316-334  Stop on a running event
StopClick ==
    /\ edit.pc = "idle"
    /\ \E i \in DOMAIN bucketEvents :
           LET originalEvent == bucketEvents[i]
               stoppedEvent ==
                   [timestamp |-> originalEvent.timestamp,
                    duration |-> DurationBetween(originalEvent.timestamp, now),
                    running |-> FALSE]
           IN  /\ originalEvent.running
               /\ edit' = Clicked("stop", originalEvent, <<stoppedEvent>>,
                                  "Invalid event duration.")
    /\ UNCHANGED <<now, stopwatchEvents, afkEvents, last, prev, groupVars,
                   reportVars, fetchVars, loadVars, refreshVars, slotVars,
                   panelVars, viewVars>>

\* calendarRenderer.js:363-369, 393-407  Save outside the split mode
SaveClick ==
    /\ edit.pc = "idle"
    /\ \E i \in DOMAIN bucketEvents :
       \E newStartTime \in EditInstants :
       \E newEndTime \in EditInstants :
           LET originalEvent == bucketEvents[i]
               newEvent == [timestamp |-> newStartTime,
                            duration |-> DurationBetween(newStartTime, newEndTime),
                            running |-> originalEvent.running]
           IN  edit' = Clicked("save", originalEvent, <<newEvent>>,
                               "End time cannot be before start time.")
    /\ UNCHANGED <<now, stopwatchEvents, afkEvents, last, prev, groupVars,
                   reportVars, fetchVars, loadVars, refreshVars, slotVars,
                   panelVars, viewVars>>

\* calendarRenderer.js:363-391  Save in the split mode
SplitSaveClick ==
    /\ edit.pc = "idle"
    /\ \E i \in DOMAIN bucketEvents :
       \E startTime1 \in EditInstants :
       \E endTime1 \in EditInstants :
       \E startTime2 \in EditInstants :
       \E endTime2 \in EditInstants :
           LET originalEvent == bucketEvents[i]
               firstEvent == [timestamp |-> startTime1,
                              duration |-> DurationBetween(startTime1, endTime1),
                              running |-> FALSE]
               secondEvent == [timestamp |-> startTime2,
                               duration |-> DurationBetween(startTime2, endTime2),
                               running |-> originalEvent.running]
           IN  edit' = Clicked("split", originalEvent, <<firstEvent, secondEvent>>,
                   "End time cannot be before start time for either event.")
    /\ UNCHANGED <<now, stopwatchEvents, afkEvents, last, prev, groupVars,
                   reportVars, fetchVars, loadVars, refreshVars, slotVars,
                   panelVars, viewVars>>

\* api.js:126-140, calendarRenderer.js:336, 388-391, 407  a creation ends
CreateAnswer ==
    /\ edit.pc \in {"creating", "failed"}
    /\ \E k \in DOMAIN edit.answers :
       \E outcome \in Outcomes :
           LET answers == [edit.answers EXCEPT ![k] = outcome]
           IN  /\ edit.answers[k] = "pending"
               /\ bucketEvents' =
                      IF Applied(outcome)
                      THEN CreateInStore(bucketEvents, edit.events[k])
                      ELSE bucketEvents
               /\ edit' =
                      IF edit.pc = "failed"
                      THEN [edit EXCEPT !.answers = answers]
                      ELSE LET pc == AfterCreation(answers, outcome)
                           IN  [edit EXCEPT
                                   !.answers = answers,
                                   !.pc = pc,
                                   !.notification =
                                       IF pc = "failed" THEN "Failed" ELSE @]
    /\ UNCHANGED <<now, stopwatchEvents, afkEvents, last, prev, groupVars,
                   reportVars, processedEvents, loadVars, refreshVars, slotVars,
                   panelVars, viewVars>>

\* api.js:114-124, calendarRenderer.js:337-345, 410-424  the deletion of the
\* original event ends
DeleteAnswer ==
    /\ edit.pc = "deleting"
    /\ \E outcome \in Outcomes :
           /\ outcome = "ok" => InStore(bucketEvents, edit.originalEvent.id)
           /\ bucketEvents' =
                  IF Applied(outcome)
                  THEN DeleteInStore(bucketEvents, edit.originalEvent.id)
                  ELSE bucketEvents
           /\ edit' = IF outcome = "ok"
                      THEN [edit EXCEPT !.pc = "done", !.notification = "success"]
                      ELSE [edit EXCEPT !.pc = "failed", !.notification = "Failed"]
    /\ UNCHANGED <<now, stopwatchEvents, afkEvents, last, prev, groupVars,
                   reportVars, processedEvents, loadVars, refreshVars, slotVars,
                   panelVars, viewVars>>

InitEdit ==
    /\ now \in EditInstants
    /\ stopwatchEvents = <<>>
    /\ afkEvents = <<>>
    /\ last = NoCall
    /\ prev = NoCall
    /\ GroupIdle
    /\ ReportIdle
    /\ bucketEvents \in EditStores
    /\ processedEvents = NoFetch
    /\ LoadIdle
    /\ RefreshIdle
    /\ EditIdle
    /\ SlotIdle
    /\ PanelIdle
    /\ ViewIdle

NextEdit ==
    StopClick \/ SaveClick \/ SplitSaveClick \/ CreateAnswer \/ DeleteAnswer

SpecEdit == InitEdit /\ [][NextEdit]_vars

\* ---- the calendar: slots of the activities of a day

\* the labels and the days of the month of a rendered calendar
MaxLabels == 2
MaxDays == 2
Labels == 1..MaxLabels
Days == 1..MaxDays

\* calendarRenderer.js:21-28  the seconds of the segments of the activity that
\* start on the day
totalDurationForActivity(data, label, day) == data[label][day]

\* calendarRenderer.js:30-39  the activities of the day, in the order of
\* calendarData
activitiesForDay(data, day) ==
    {label \in Labels : totalDurationForActivity(data, label, day) > 0}

\* calendarRenderer.js:57  the new activities by duration, longest first; the
\* sort keeps the order of calendarData among equal durations
RECURSIVE SortNewByDurationDesc(_, _, _)
SortNewByDurationDesc(labels, data, day) ==
    IF labels = {} THEN <<>>
    ELSE LET first == CHOOSE a \in labels : \A b \in labels :
                 \/ totalDurationForActivity(data, a, day)
                        > totalDurationForActivity(data, b, day)
                 \/ /\ totalDurationForActivity(data, a, day)
                        = totalDurationForActivity(data, b, day)
                    /\ a <= b
         IN  <<first>> \o SortNewByDurationDesc(labels \ {first}, data, day)

\* calendarRenderer.js:62-64  the first slot from currentSlotIndex on that is
\* not occupied
FreeSlotNoSkip(occupiedSlots, currentSlotIndex) == currentSlotIndex
FreeSlot(occupiedSlots, currentSlotIndex) ==
    CHOOSE slot \in currentSlotIndex..(currentSlotIndex + Cardinality(occupiedSlots)) :
        /\ slot \notin occupiedSlots
        /\ \A lower \in currentSlotIndex..(slot - 1) : lower \in occupiedSlots

\* calendarRenderer.js:60-70  the slots of the new activities
RECURSIVE AssignNewSlots(_, _, _, _)
AssignNewSlots(activities, currentDaySlots, occupiedSlots, currentSlotIndex) ==
    IF activities = <<>> THEN currentDaySlots
    ELSE LET assignedSlot == FreeSlot(occupiedSlots, currentSlotIndex)
         IN  AssignNewSlots(Tail(activities),
                 [label \in DOMAIN currentDaySlots \cup {Head(activities)} |->
                     IF label = Head(activities) THEN assignedSlot
                     ELSE currentDaySlots[label]],
                 occupiedSlots \cup {assignedSlot},
                 assignedSlot + 1)

\* calendarRenderer.js:16-81  renderActivitiesForDay: the slots of the day
renderActivitiesForDay(data, day, previousDaySlots) ==
    LET activities == activitiesForDay(data, day)
        present == activities \cap DOMAIN previousDaySlots
        kept == [label \in present |-> previousDaySlots[label]]
        occupiedSlots == {previousDaySlots[label] : label \in present}
        activitiesToAssignNewSlot ==
            SortNewByDurationDesc(activities \ present, data, day)
    IN  AssignNewSlots(activitiesToAssignNewSlot, kept, occupiedSlots, 0)

\* calendar.js:158-188  the loop over the days of the current month
RECURSIVE RenderedDays(_, _, _)
RenderedDays(data, day, previousDaySlots) ==
    IF day > MaxDays THEN <<>>
    ELSE LET currentDaySlots == renderActivitiesForDay(data, day, previousDaySlots)
         IN  <<currentDaySlots>> \o RenderedDays(data, day + 1, currentDaySlots)

\* calendar.js:158-188  renderCalendar draws the days of the month
RenderDays ==
    /\ daySlots = <<>>
    /\ daySlots' = RenderedDays(calendarData, 1, <<>>)
    /\ UNCHANGED <<now, stopwatchEvents, afkEvents, last, prev, groupVars,
                   reportVars, fetchVars, loadVars, refreshVars, editVars,
                   calendarData, panelVars, viewVars>>

InitCalendar ==
    /\ now = Horizon
    /\ stopwatchEvents = <<>>
    /\ afkEvents = <<>>
    /\ last = NoCall
    /\ prev = NoCall
    /\ GroupIdle
    /\ ReportIdle
    /\ FetchIdle
    /\ LoadIdle
    /\ RefreshIdle
    /\ EditIdle
    /\ calendarData \in [Labels -> [Days -> 0..MaxTime]]
    /\ daySlots = <<>>
    /\ PanelIdle
    /\ ViewIdle

NextCalendar == RenderDays

SpecCalendar == InitCalendar /\ [][NextCalendar]_vars

\* ---- the panels and the Escape key

\* the keydown listeners the model lets the page register
MaxListeners == 3

\* panelManager.js:208-217  the panels Escape hides, in the order of the checks
PanelOrder == <<"edit", "info", "report", "colorRules", "calendar">>
PanelNames == {PanelOrder[k] : k \in DOMAIN PanelOrder}

\* panelManager.js:206-223  what one keydown listener does on Escape
EscapeListener(panels) ==
    IF panels.open # {}
    THEN LET first == CHOOSE k \in DOMAIN PanelOrder :
                 /\ PanelOrder[k] \in panels.open
                 /\ \A l \in 1..(k - 1) : PanelOrder[l] \notin panels.open
         IN  [panels EXCEPT !.open = @ \ {PanelOrder[first]}]
    ELSE [panels EXCEPT !.zoom = IF @ = "none" THEN "flex" ELSE "none"]

\* the browser calls every registered listener of the keydown event
RECURSIVE RunListeners(_, _)
RunListeners(n, panels) ==
    IF n = 0 THEN panels ELSE RunListeners(n - 1, EscapeListener(panels))

\* main.js:188-191 and the clicks on events: a panel other than the calendar is
\* shown
ShowPanel ==
    /\ \E panel \in PanelNames \ {"calendar"} :
           panelState' = [panelState EXCEPT !.open = @ \cup {panel}]
    /\ UNCHANGED <<now, stopwatchEvents, afkEvents, last, prev, groupVars,
                   reportVars, fetchVars, loadVars, refreshVars, editVars,
                   slotVars, lastEscape, viewVars>>

\* main.js:193-197  the open-calendar button: initCalendar when the panel is
\* hidden (calendar.js:73 registers one more keydown listener), then the panel
\* is shown or hidden
CalendarClick ==
    /\ "calendar" \notin panelState.open => panelState.listeners < MaxListeners
    /\ panelState' =
           IF "calendar" \notin panelState.open
           THEN [panelState EXCEPT !.listeners = @ + 1,
                                   !.open = @ \cup {"calendar"}]
           ELSE [panelState EXCEPT !.open = @ \ {"calendar"}]
    /\ UNCHANGED <<now, stopwatchEvents, afkEvents, last, prev, groupVars,
                   reportVars, fetchVars, loadVars, refreshVars, editVars,
                   slotVars, lastEscape, viewVars>>

\* one press of the Escape key
EscapePress ==
    /\ panelState' = RunListeners(panelState.listeners, panelState)
    /\ lastEscape' = [pressed |-> TRUE, before |-> panelState,
                      after |-> panelState']
    /\ UNCHANGED <<now, stopwatchEvents, afkEvents, last, prev, groupVars,
                   reportVars, fetchVars, loadVars, refreshVars, editVars,
                   slotVars, viewVars>>

\* main.js:130  main has registered its keydown listener; every panel is hidden
InitPanels ==
    /\ now = Horizon
    /\ stopwatchEvents = <<>>
    /\ afkEvents = <<>>
    /\ last = NoCall
    /\ prev = NoCall
    /\ GroupIdle
    /\ ReportIdle
    /\ FetchIdle
    /\ LoadIdle
    /\ RefreshIdle
    /\ EditIdle
    /\ SlotIdle
    /\ panelState = [open |-> {}, zoom |-> "none", listeners |-> 1]
    /\ lastEscape = NoEscape
    /\ ViewIdle

NextPanels == ShowPanel \/ CalendarClick \/ EscapePress

SpecPanels == InitPanels /\ [][NextPanels]_vars

\* ---- the calendar: navigation while renderCalendar awaits its fetch

\* the calls of renderCalendar that can await their fetch at a time, and the
\* months the user can move away from the month of today
MaxRenders == 2
Months == (0 - MaxRenders)..MaxRenders

\* calendar.js:79-111  renderCalendar up to its await: the header shows the
\* current month, the grid is cleared, the fetch of the month is sent
StartRender(view, month) ==
    [currentMonth |-> month, header |-> month, grid |-> <<>>,
     pending |-> Append(view.pending, month)]

\* calendar.js:34-51  the previous-month button
PrevMonthClick ==
    /\ Len(calendarView.pending) < MaxRenders
    /\ calendarView.currentMonth - 1 \in Months
    /\ calendarView' = StartRender(calendarView, calendarView.currentMonth - 1)
    /\ UNCHANGED <<now, stopwatchEvents, afkEvents, last, prev, groupVars,
                   reportVars, fetchVars, loadVars, refreshVars, editVars,
                   slotVars, panelVars>>

\* calendar.js:53-70  the next-month button
NextMonthClick ==
    /\ Len(calendarView.pending) < MaxRenders
    /\ calendarView.currentMonth + 1 \in Months
    /\ calendarView' = StartRender(calendarView, calendarView.currentMonth + 1)
    /\ UNCHANGED <<now, stopwatchEvents, afkEvents, last, prev, groupVars,
                   reportVars, fetchVars, loadVars, refreshVars, editVars,
                   slotVars, panelVars>>

\* calendar.js:108-189  the fetch of a call of renderCalendar has ended: the
\* call appends the day cells of its month to the grid
RenderCompletes ==
    /\ \E r \in DOMAIN calendarView.pending :
           calendarView' =
               [calendarView EXCEPT
                   !.grid = Append(@, calendarView.pending[r]),
                   !.pending = SubSeq(@, 1, r - 1) \o SubSeq(@, r + 1, Len(@))]
    /\ UNCHANGED <<now, stopwatchEvents, afkEvents, last, prev, groupVars,
                   reportVars, fetchVars, loadVars, refreshVars, editVars,
                   slotVars, panelVars>>

\* calendar.js:19-28  initCalendar has set the month of today and called
\* renderCalendar
InitView ==
    /\ now = Horizon
    /\ stopwatchEvents = <<>>
    /\ afkEvents = <<>>
    /\ last = NoCall
    /\ prev = NoCall
    /\ GroupIdle
    /\ ReportIdle
    /\ FetchIdle
    /\ LoadIdle
    /\ RefreshIdle
    /\ EditIdle
    /\ SlotIdle
    /\ PanelIdle
    /\ calendarView = StartRender(NoView, 0)

NextView == PrevMonthClick \/ NextMonthClick \/ RenderCompletes

SpecView == InitView /\ [][NextView]_vars

\* ------------------------------------------------------------ the claims

RECURSIVE SumDurations(_)
SumDurations(segments) ==
    IF segments = <<>> THEN 0
    ELSE Head(segments).duration + SumDurations(Tail(segments))

\* the task events returned by the latest call
Returned == {last.ret[k] : k \in DOMAIN last.ret}

\* the interval [start, end) the engine gave the event in the latest call
StartOf(ev) == ev.timestamp
EndOf(ev) == IF ev.running THEN last.clock ELSE ev.timestamp + ev.duration * MsPerSec

\* C1: the durations of a task's activitySegments sum to the task's duration
\* field, for closed and for running tasks
C1_Coverage ==
    last.called =>
        \A ev \in Returned : SumDurations(ev.activitySegments) = ev.duration

\* C2: the segments are sorted by startTimestamp and each one ends exactly
\* where the next one starts
C2_GaplessOrdered ==
    last.called =>
        \A ev \in Returned :
            \A i \in 1..(Len(ev.activitySegments) - 1) :
                LET a == ev.activitySegments[i]
                    b == ev.activitySegments[i + 1]
                IN  /\ a.startTimestamp <= b.startTimestamp
                    /\ a.startTimestamp + a.duration * MsPerSec = b.startTimestamp

\* a call returned a task of two segments, the first of them merged from two
\* pieces
C2_Witness ==
    /\ last.called
    /\ \E ev \in Returned :
        /\ Len(ev.activitySegments) = 2
        /\ \E j \in DOMAIN afkEvents :
            /\ ev.activitySegments[1].startTimestamp < afkEvents[j].timestamp
            /\ afkEvents[j].timestamp < ev.activitySegments[2].startTimestamp

\* C3: no two adjacent segments of a task have the same status
C3_MaximalMerge ==
    last.called =>
        \A ev \in Returned :
            \A i \in 1..(Len(ev.activitySegments) - 1) :
                ev.activitySegments[i].status # ev.activitySegments[i + 1].status

\* two presence intervals of the same status that overlap each other cut the
\* task in two, and the call returned the task with the two pieces merged
C3_Witness ==
    /\ last.called
    /\ \E ev \in Returned :
        /\ Len(ev.activitySegments) = 1
        /\ \E i, j \in DOMAIN afkEvents :
            /\ i # j
            /\ afkEvents[i].status = afkEvents[j].status
            /\ afkEvents[i].timestamp < afkEvents[j].timestamp
            /\ afkEvents[j].timestamp < AfkEnd(afkEvents[i])
            /\ StartOf(ev) < afkEvents[j].timestamp
            /\ afkEvents[j].timestamp < EndOf(ev)
            /\ afkEvents[i].timestamp <= StartOf(ev)

\* the presence intervals that cover the instant t
Covering(t) ==
    {j \in DOMAIN afkEvents :
        afkEvents[j].timestamp <= t /\ t < AfkEnd(afkEvents[j])}
\* those of them with the latest start
LatestCovering(t) ==
    {j \in Covering(t) :
        \A k \in Covering(t) : afkEvents[k].timestamp <= afkEvents[j].timestamp}
\* the segments of the event that contain the instant t
SegmentsAt(ev, t) ==
    {i \in DOMAIN ev.activitySegments :
        /\ ev.activitySegments[i].startTimestamp <= t
        /\ t < ev.activitySegments[i].startTimestamp
                + ev.activitySegments[i].duration * MsPerSec}

\* C4: for every instant t of [task start, task end), the segment containing
\* t has the status of the presence interval with the latest start among
\* those covering t, and 'not-afk' when none covers t
C4_StatusAssignment ==
    last.called =>
        \A ev \in Returned :
            \A t \in {u \in Instants : StartOf(ev) <= u /\ u < EndOf(ev)} :
                /\ Cardinality(SegmentsAt(ev, t)) = 1
                /\ \A i \in SegmentsAt(ev, t) :
                    IF Covering(t) = {}
                    THEN ev.activitySegments[i].status = "not-afk"
                    ELSE \E j \in LatestCovering(t) :
                            ev.activitySegments[i].status = afkEvents[j].status

\* an instant of a returned task is covered by two presence intervals of
\* different status and different start
C4_Witness ==
    /\ last.called
    /\ \E ev \in Returned :
        \E t \in {u \in Instants : StartOf(ev) <= u /\ u < EndOf(ev)} :
            \E i, j \in Covering(t) :
                /\ afkEvents[i].status # afkEvents[j].status
                /\ afkEvents[i].timestamp < afkEvents[j].timestamp

\* the event has exactly one segment, from its start to its end, of status s
OneSegment(ev, s) ==
    /\ Len(ev.activitySegments) = 1
    /\ ev.activitySegments[1].startTimestamp = StartOf(ev)
    /\ ev.activitySegments[1].duration * MsPerSec = EndOf(ev) - StartOf(ev)
    /\ ev.activitySegments[1].status = s

\* C5 as stated: with an empty presence list every task gets exactly one
\* segment, which starts at the task start, covers the whole task and is
\* 'not-afk'
C5_DefaultActiveAnyTask ==
    (last.called /\ afkEvents = <<>>) =>
        \A ev \in Returned : OneSegment(ev, "not-afk")

\* C5 amended: with an empty presence list every task that ends after its
\* start gets exactly one segment, which starts at the task start, covers
\* the whole task and is 'not-afk'
C5_DefaultActive ==
    (last.called /\ afkEvents = <<>>) =>
        \A ev \in Returned :
            StartOf(ev) < EndOf(ev) => OneSegment(ev, "not-afk")

\* a running task that has lasted for a while, computed without presence data
C5_Witness ==
    /\ last.called
    /\ afkEvents = <<>>
    /\ \E ev \in Returned :
        ev.running /\ StartOf(ev) < EndOf(ev) /\ OneSegment(ev, "not-afk")

\* the presence list is a single 'afk' interval that contains the task
SingleAwayContains(ev) ==
    /\ Len(afkEvents) = 1
    /\ afkEvents[1].status = "afk"
    /\ afkEvents[1].timestamp <= StartOf(ev)
    /\ EndOf(ev) <= AfkEnd(afkEvents[1])

\* C6 as stated: a task contained in a single 'afk' presence interval gets
\* exactly one segment, of status 'afk' and of the task's duration
C6_FullCoverageAnyTask ==
    last.called =>
        \A ev \in Returned : SingleAwayContains(ev) => OneSegment(ev, "afk")

\* C6 amended: a task that ends after its start and is contained in a single
\* 'afk' presence interval gets exactly one segment, of status 'afk' and of
\* the task's duration
C6_FullCoverage ==
    last.called =>
        \A ev \in Returned :
            (SingleAwayContains(ev) /\ StartOf(ev) < EndOf(ev))
                => OneSegment(ev, "afk")

\* a closed task that starts inside a single 'afk' interval and ends no
\* later than it, computed
C6_Witness ==
    /\ last.called
    /\ \E ev \in Returned :
        /\ ~ev.running
        /\ SingleAwayContains(ev)
        /\ afkEvents[1].timestamp < StartOf(ev)
        /\ StartOf(ev) < EndOf(ev)

\* C7: a closed task of duration 0 gets an empty activitySegments list, for
\* any presence list
C7_ZeroDuration ==
    last.called =>
        \A ev \in Returned :
            (~ev.running /\ ev.duration = 0) => ev.activitySegments = <<>>

\* a closed task of duration 0 computed at a later clock value, with a
\* presence interval around its instant
C7_Witness ==
    /\ last.called
    /\ \E ev \in Returned :
        /\ ~ev.running
        /\ ev.duration = 0
        /\ ev.hasSegments
        /\ ev.timestamp < last.clock
        /\ Covering(ev.timestamp) # {}

\* ---- two calls on the same running task (specification SpecRun)

\* only the final segment's duration differs between the lists a and b
OnlyFinalDiffers(a, b) ==
    /\ Len(a) = Len(b)
    /\ Len(a) >= 1
    /\ \A i \in 1..(Len(a) - 1) : a[i] = b[i]
    /\ a[Len(a)].startTimestamp = b[Len(b)].startTimestamp
    /\ a[Len(a)].status = b[Len(b)].status

\* a presence interval starts or ends at an instant of [t1, t2)
PresenceEdgeIn(t1, t2) ==
    \E j \in DOMAIN afkEvents :
        \/ t1 <= afkEvents[j].timestamp /\ afkEvents[j].timestamp < t2
        \/ t1 <= AfkEnd(afkEvents[j]) /\ AfkEnd(afkEvents[j]) < t2

\* the running tasks computed by the last two calls, at clock values
\* prev.clock < last.clock
RunningTwice ==
    IF prev.called /\ last.called /\ prev.clock < last.clock
    THEN {k \in DOMAIN last.ret :
            /\ k \in DOMAIN prev.ret
            /\ prev.ret[k].id = last.ret[k].id
            /\ last.ret[k].running}
    ELSE {}

\* C8 as stated: the outputs for a running task (one that started before
\* now1, so that the first output has a final segment) at clock values
\* now1 < now2 differ by now2 - now1 in total duration, and only in the final
\* segment's duration
C8_RunningAdvanceAnyPresence ==
    \A k \in RunningTwice :
        last.ret[k].timestamp < prev.clock =>
        /\ SumDurations(last.ret[k].activitySegments)
             - SumDurations(prev.ret[k].activitySegments)
           = (last.clock - prev.clock) \div MsPerSec
        /\ OnlyFinalDiffers(prev.ret[k].activitySegments,
                            last.ret[k].activitySegments)

\* C8 amended: for a running task that started at or before now1, the total
\* durations differ by exactly now2 - now1; if it started before now1 and no
\* presence interval starts or ends at an instant of [now1, now2), only the
\* final segment's duration changes
C8_RunningAdvance ==
    \A k \in RunningTwice :
        last.ret[k].timestamp <= prev.clock =>
            /\ SumDurations(last.ret[k].activitySegments)
                 - SumDurations(prev.ret[k].activitySegments)
               = (last.clock - prev.clock) \div MsPerSec
            /\ (/\ last.ret[k].timestamp < prev.clock
                /\ ~PresenceEdgeIn(prev.clock, last.clock))
               => OnlyFinalDiffers(prev.ret[k].activitySegments,
                                   last.ret[k].activitySegments)

\* a running task cut in two by the presence data, computed at two clock
\* values with no presence edge in between
C8_Witness ==
    \E k \in RunningTwice :
        /\ last.ret[k].timestamp < prev.clock
        /\ ~PresenceEdgeIn(prev.clock, last.clock)
        /\ Len(prev.ret[k].activitySegments) >= 2
        /\ Len(last.ret[k].activitySegments) >= 2

\* ---- two calls on lists of tasks of the same pool (specification SpecAgg)

\* C9: two calls with the same presence list return identical activitySegments
\* for the same task: for a closed task whatever the two clock values are, for
\* a running task whenever the two calls read the same clock value
C9_Determinism ==
    (prev.called /\ last.called) =>
        \A k \in DOMAIN prev.ret : \A m \in DOMAIN last.ret :
            (/\ prev.ret[k].id = last.ret[m].id
             /\ (last.ret[m].running => prev.clock = last.clock))
                => prev.ret[k].activitySegments = last.ret[m].activitySegments

\* a closed task of two segments computed at two different clock values,
\* next to a running task whose segments changed with the clock
C9_Witness ==
    /\ prev.called
    /\ last.called
    /\ prev.clock < last.clock
    /\ \E k \in DOMAIN prev.ret : \E m \in DOMAIN last.ret :
        /\ prev.ret[k].id = last.ret[m].id
        /\ ~last.ret[m].running
        /\ Len(last.ret[m].activitySegments) = 2
    /\ \E k \in DOMAIN prev.ret : \E m \in DOMAIN last.ret :
        /\ prev.ret[k].id = last.ret[m].id
        /\ last.ret[m].running
        /\ prev.ret[k].activitySegments # last.ret[m].activitySegments


\* C10: a call returns the tasks of its argument in the same order, and the
\* activitySegments of a task are the same in two calls (same presence list,
\* same clock) whatever other tasks the two arguments hold and in whatever
\* order
C10_Independence ==
    /\ last.called =>
        /\ Len(last.ret) = Len(last.arg)
        /\ \A k \in DOMAIN last.ret :
            /\ last.ret[k].id = last.arg[k]
            /\ last.ret[k] = stopwatchEvents[last.arg[k]]
    /\ (prev.called /\ last.called /\ prev.clock = last.clock) =>
        \A k \in DOMAIN prev.ret : \A m \in DOMAIN last.ret :
            prev.ret[k].id = last.ret[m].id =>
                prev.ret[k].activitySegments = last.ret[m].activitySegments

\* a task of two segments was computed behind another task whose segments
\* differ from its own, and then again in a call without that other task
C10_Witness ==
    /\ prev.called
    /\ last.called
    /\ prev.clock = last.clock
    /\ Len(prev.arg) >= 2
    /\ last.arg = <<prev.arg[2]>>
    /\ Len(last.ret[1].activitySegments) = 2
    /\ prev.ret[1].activitySegments # prev.ret[2].activitySegments
\* ---- the arguments of a call after the call

\* C11: a call of calculateActivitySegments or of groupWindowWatcherEvents
\* leaves the arrays and the event objects it was given unchanged
C11_NoMutation ==
    [][/\ stopwatchEvents' = stopwatchEvents
       /\ afkEvents' = afkEvents
       /\ allEvents' = allEvents]_vars

\* ---- one call of the grouping engine (specifications SpecGroup, SpecGroupSmall)

\* the window samples of the argument, and the groups returned
Samples == {allEvents[i] : i \in {j \in DOMAIN allEvents : IsWindowBucket(allEvents[j].bucket)}}
Groups == {windowGroups.allGroups[g] : g \in DOMAIN windowGroups.allGroups}
\* a filler group carries uniqueApps, a clean group does not
CleanOnes == {group \in Groups : group.uniqueApps = 0}
FillerOnes == {group \in Groups : group.uniqueApps # 0}
\* the samples in the events list of a group, by identity
Members(group) == {group.events[k].id : k \in DOMAIN group.events}

\* C12: for a single window sample, of any duration, the engine returns no
\* group at all
C12_Minimality ==
    (windowGroups.called /\ Cardinality(Samples) = 1) =>
        windowGroups.allGroups = <<>>

\* C13: every clean group returned holds at least two distinct input samples
C13_CleanGroupSize ==
    windowGroups.called =>
        \A group \in CleanOnes : Cardinality(Members(group)) >= 2

\* the window samples in timestamp order (samples of equal timestamp in the
\* order of the argument)
InOrder ==
    SortByTimestampAsc(SelectSeq(allEvents, LAMBDA e : IsWindowBucket(e.bucket)))

RECURSIVE SumOfDurations(_)
SumOfDurations(S) ==
    IF S = {} THEN 0
    ELSE LET e == CHOOSE x \in S : TRUE
         IN  e.duration + SumOfDurations(S \ {e})

\* three samples of one app, each starting at or after the end of the one
\* before
ThreeConsecutive ==
    /\ Len(InOrder) = 3
    /\ \A i \in 1..3 : InOrder[i].app = InOrder[1].app
    /\ \A i \in 1..2 : InOrder[i + 1].timestamp >= EventEnd(InOrder[i])

\* C14: for three consecutive, non-overlapping samples of one app the engine
\* returns exactly one group, a clean one, whose totalDuration is the sum of
\* the three durations and whose titleDurations holds, for each title of the
\* samples, the sum of the durations of the samples with that title
C14_Contiguity ==
    (windowGroups.called /\ ThreeConsecutive) =>
        /\ Len(windowGroups.allGroups) = 1
        /\ LET group == windowGroups.allGroups[1]
           IN  /\ group.uniqueApps = 0
               /\ group.app = InOrder[1].app
               /\ group.totalDuration = SumOfDurations(Samples)
               /\ DOMAIN group.titleDurations =
                      {NormalizeTitle(e.title) : e \in Samples}
               /\ \A t \in DOMAIN group.titleDurations :
                      group.titleDurations[t] =
                          SumOfDurations({e \in Samples : NormalizeTitle(e.title) = t})

\* three consecutive samples of one app, two of them with the same title,
\* grouped
C14_Witness ==
    /\ windowGroups.called
    /\ ThreeConsecutive
    /\ InOrder[1].title # InOrder[2].title
    /\ InOrder[2].title = InOrder[3].title
    /\ InOrder[1].duration > 0
    /\ InOrder[3].duration > 0

\* "longest wins", as the claim words it: the members kept of the samples
\* seq[i..], kept holding the members so far; a sample that starts before the
\* end of the previous member replaces it if it is longer and is dropped
\* otherwise
RECURSIVE KeptMembers(_, _, _)
KeptMembers(seq, i, kept) ==
    IF i > Len(seq) THEN kept
    ELSE LET previous == kept[Len(kept)]
         IN  IF seq[i].timestamp < EventEnd(previous)
             THEN KeptMembers(seq, i + 1,
                      IF seq[i].duration > previous.duration
                      THEN [kept EXCEPT ![Len(kept)] = seq[i]]
                      ELSE kept)
             ELSE KeptMembers(seq, i + 1, Append(kept, seq[i]))
Kept == KeptMembers(InOrder, 2, <<InOrder[1]>>)

\* all the samples are of one app, and one of them starts before the end of
\* the member before it
OverlapInOneApp ==
    /\ Len(InOrder) >= 2
    /\ \A i \in DOMAIN InOrder : InOrder[i].app = InOrder[1].app
    /\ Len(Kept) < Len(InOrder)

\* C15 as stated: two overlapping samples of one app give a diagnostic and a
\* group whose totalDuration is the duration of the longer one
C15_TieBreakTwoSamples ==
    (windowGroups.called /\ OverlapInOneApp /\ Len(InOrder) = 2) =>
        /\ windowGroups.warnings >= 1
        /\ \E group \in Groups :
               /\ group.totalDuration >= InOrder[1].duration
               /\ group.totalDuration >= InOrder[2].duration
               /\ \/ group.totalDuration = InOrder[1].duration
                  \/ group.totalDuration = InOrder[2].duration

\* C15 amended: when a sample of a one-app input starts before the end of the
\* previous member, a diagnostic is emitted and only the longer of the two
\* stays a member; if two members or more are left they form the one clean
\* group, whose totalDuration is the sum of their durations, and if a single
\* member is left (as for two overlapping samples) no group is returned
C15_TieBreak ==
    (windowGroups.called /\ OverlapInOneApp) =>
        /\ windowGroups.warnings >= 1
        /\ IF Len(Kept) >= 2
           THEN /\ Cardinality(CleanOnes) = 1
                /\ \A group \in CleanOnes :
                       /\ Members(group) = {Kept[k].id : k \in DOMAIN Kept}
                       /\ group.totalDuration =
                              SumOfDurations({Kept[k] : k \in DOMAIN Kept})
           ELSE windowGroups.allGroups = <<>>

\* a sample was replaced by a longer one that overlaps it, and a third sample
\* joined the group behind the longer one
C15_Witness ==
    /\ windowGroups.called
    /\ OverlapInOneApp
    /\ Len(InOrder) = 3
    /\ InOrder[2].timestamp < EventEnd(InOrder[1])
    /\ InOrder[2].duration > InOrder[1].duration
    /\ InOrder[1].duration > 0
    /\ Kept = <<InOrder[2], InOrder[3]>>
    /\ Cardinality(CleanOnes) = 1

\* the samples i and i + 1 of InOrder are of one app and do not overlap
ConsecutiveSameApp(i) ==
    /\ InOrder[i + 1].app = InOrder[i].app
    /\ InOrder[i + 1].timestamp >= EventEnd(InOrder[i])
\* the first sample of the one-app run that holds the sample i
RECURSIVE RunStart(_)
RunStart(i) ==
    IF i > 1 /\ InOrder[i - 1].app = InOrder[i].app THEN RunStart(i - 1) ELSE i
\* the last sample of that run
RECURSIVE RunEnd(_)
RunEnd(i) ==
    IF i < Len(InOrder) /\ InOrder[i + 1].app = InOrder[i].app
    THEN RunEnd(i + 1) ELSE i
\* a clean group holds both samples
InOneCleanGroup(e1, e2) ==
    \E group \in CleanOnes : e1.id \in Members(group) /\ e2.id \in Members(group)
\* the positions in InOrder of the members of a group
Positions(group) == {i \in DOMAIN InOrder : InOrder[i].id \in Members(group)}
\* two different clean groups have a sample of another app between them
ClosedByOtherApp ==
    \A g \in CleanOnes : \A h \in CleanOnes :
        (g # h /\ g.app = h.app) =>
            \A i \in Positions(g) : \A j \in Positions(h) :
                \E k \in DOMAIN InOrder :
                    /\ InOrder[k].app # g.app
                    /\ (i < k /\ k < j) \/ (j < k /\ k < i)

\* C16 as stated: two samples that are consecutive in timestamp order, share
\* the app and do not overlap are in the same clean group, whatever the time
\* between them; a clean group is closed only by a sample of another app
C16_NoGapThresholdAnyPair ==
    windowGroups.called =>
        /\ \A i \in 1..(Len(InOrder) - 1) :
               ConsecutiveSameApp(i) => InOneCleanGroup(InOrder[i], InOrder[i + 1])
        /\ ClosedByOtherApp

\* C16 amended: the same, for two consecutive samples of a run of one app in
\* which every sample starts at or after the end of the one before it
C16_NoGapThreshold ==
    windowGroups.called =>
        /\ \A i \in 1..(Len(InOrder) - 1) :
               (/\ InOrder[i + 1].app = InOrder[i].app
                /\ \A j \in RunStart(i)..(RunEnd(i) - 1) : ConsecutiveSameApp(j))
                   => InOneCleanGroup(InOrder[i], InOrder[i + 1])
        /\ ClosedByOtherApp

\* two samples of one app with a time gap between them are in one clean
\* group, which a sample of another app closed
C16_Witness ==
    /\ windowGroups.called
    /\ Len(InOrder) = 3
    /\ ConsecutiveSameApp(1)
    /\ InOrder[1].duration > 0
    /\ InOrder[2].timestamp > EventEnd(InOrder[1])
    /\ InOrder[3].app # InOrder[1].app
    /\ InOneCleanGroup(InOrder[1], InOrder[2])

\* the global span of the samples: the earliest start and the latest end
SpanStart ==
    CHOOSE t \in {e.timestamp : e \in Samples} :
        \A e \in Samples : t <= e.timestamp
SpanEnd ==
    CHOOSE t \in {EventEnd(e) : e \in Samples} :
        \A e \in Samples : EventEnd(e) <= t
\* the starts of the one-second cells of the span [from, to]
Cells(from, to) ==
    {c * MsPerSec : c \in (from \div MsPerSec)..((to \div MsPerSec) - 1)}
\* the cell that starts at t lies in the span [from, to]
CellIn(t, from, to) == from <= t /\ t + MsPerSec <= to
HoleSet == {windowGroups.holes[h] : h \in DOMAIN windowGroups.holes}
CoveredByClean(t) ==
    \E group \in CleanOnes : CellIn(t, group.startTime, group.endTime)
InHole(t) == \E hole \in HoleSet : CellIn(t, hole.start, hole.end)

\* C17: every hole lies inside the global span [min(timestamp),
\* max(timestamp + duration)] of the samples, and a second of that span is
\* in a hole exactly when no clean group covers it
C17_Holes ==
    (windowGroups.called /\ Samples # {}) =>
        /\ \A hole \in HoleSet :
               /\ SpanStart <= hole.start
               /\ hole.end <= SpanEnd
        /\ \A t \in Cells(SpanStart, SpanEnd) : InHole(t) <=> ~CoveredByClean(t)

\* the time extent of a group: [startTime, startTime + totalDuration]
ExtentStart(group) == group.startTime
ExtentEnd(group) == group.startTime + group.totalDuration * MsPerSec
\* a filler group is built for the hole whose end it takes as its endTime
HoleOf(group) == {hole \in HoleSet : hole.end = group.endTime}

\* C18: the extent [startTime, startTime + totalDuration] of every filler
\* group lies within the hole it was built for, and overlaps the extent of no
\* clean group
C18_FillerInHole ==
    windowGroups.called =>
        \A filler \in FillerOnes :
            /\ \E hole \in HoleOf(filler) :
                   /\ hole.start <= ExtentStart(filler)
                   /\ ExtentEnd(filler) <= hole.end
            /\ \A clean \in CleanOnes :
                   \/ ExtentEnd(filler) <= clean.startTime
                   \/ clean.endTime <= ExtentStart(filler)

\* ---- one call of the report generator (specification SpecReport)

\* the task intervals of the argument that carry segments, by position
TaskIntervals ==
    {i \in DOMAIN allEventsData :
        /\ allEventsData[i].bucket = "aw-stopwatch"
        /\ allEventsData[i].hasSegments}
\* the seconds of the segments of one interval that have the given status
RECURSIVE SecondsWithStatus(_, _)
SecondsWithStatus(segments, status) ==
    IF segments = <<>> THEN 0
    ELSE (IF Head(segments).status = status THEN Head(segments).duration ELSE 0)
         + SecondsWithStatus(Tail(segments), status)
\* the active seconds of a set of intervals
RECURSIVE ActiveSeconds(_)
ActiveSeconds(intervals) ==
    IF intervals = {} THEN 0
    ELSE LET i == CHOOSE x \in intervals : TRUE
         IN  SecondsWithStatus(allEventsData[i].activitySegments, "not-afk")
             + ActiveSeconds(intervals \ {i})
\* the sum of the per-day buckets of a task
RECURSIVE SumOfDays(_, _)
SumOfDays(dailyBreakdown, days) ==
    IF days = {} THEN 0
    ELSE LET d == CHOOSE x \in days : TRUE
         IN  dailyBreakdown[d] + SumOfDays(dailyBreakdown, days \ {d})
Rows == {reportData.report[k] : k \in DOMAIN reportData.report}
Tasks == {reportData.taskMap[k] : k \in DOMAIN reportData.taskMap}
\* the label under which the report shows the intervals of a label
ShownAs(label) == IF label = "" THEN "Untitled" ELSE label
\* the totals of the rows equal the sums of their per-day buckets
TotalsAreSumsOfDays ==
    /\ \A task \in Tasks :
           task.totalCleanTime
               = SumOfDays(task.dailyBreakdown, DOMAIN task.dailyBreakdown)
    /\ \A row \in Rows : \E task \in Tasks :
           /\ task.label = row.label
           /\ task.totalCleanTime = row.totalCleanTimeRaw
    /\ Cardinality(Rows) = Cardinality(Tasks)
    /\ Len(reportData.report) = Cardinality(Rows)

\* C19 as stated: for each label carried by task intervals, the total of its
\* row is the sum of the active segments of the intervals with that very
\* label, and equals the sum of the row's per-day buckets
C19_ReportTotalsPerStoredLabel ==
    reportData.called =>
        /\ \A i \in TaskIntervals :
               \E row \in Rows :
                   /\ row.label = ShownAs(allEventsData[i].label)
                   /\ row.totalCleanTimeRaw =
                          ActiveSeconds({j \in TaskIntervals :
                              allEventsData[j].label = allEventsData[i].label})
        /\ TotalsAreSumsOfDays

\* C19 amended: the same, the intervals without a label counting as intervals
\* labelled 'Untitled'
C19_ReportTotals ==
    reportData.called =>
        /\ \A i \in TaskIntervals :
               \E row \in Rows :
                   /\ row.label = ShownAs(allEventsData[i].label)
                   /\ row.totalCleanTimeRaw =
                          ActiveSeconds({j \in TaskIntervals :
                              ShownAs(allEventsData[j].label)
                                  = ShownAs(allEventsData[i].label)})
        /\ \A row \in Rows : \E i \in TaskIntervals :
               row.label = ShownAs(allEventsData[i].label)
        /\ TotalsAreSumsOfDays

\* a report of two intervals of one label, with an away segment that is not
\* counted and active segments on two days
C19_Witness ==
    /\ reportData.called
    /\ Len(allEventsData) = 2
    /\ TaskIntervals = {1, 2}
    /\ allEventsData[1].label = "a"
    /\ allEventsData[2].label = "a"
    /\ SecondsWithStatus(allEventsData[1].activitySegments, "afk") > 0
    /\ \E task \in Tasks :
           /\ Cardinality(DOMAIN task.dailyBreakdown) = 2
           /\ task.totalCleanTime > 1

\* ---- the fetches of the store client (specification SpecFetch)

\* C20: after a fetch, every running task event has the duration
\* now - timestamp of the time of the fetch, whatever the store holds
C20_RunningDurationOnRead ==
    processedEvents.called =>
        \A i \in DOMAIN processedEvents.events :
            processedEvents.events[i].running =>
                processedEvents.events[i].duration
                    = (processedEvents.clock - processedEvents.events[i].timestamp)
                          \div MsPerSec

\* ---- accounting and membership of the groups (specification SpecGroup)

\* the sum of the durations of the entries of an events list
RECURSIVE SumOfEntries(_)
SumOfEntries(events) ==
    IF events = <<>> THEN 0
    ELSE Head(events).duration + SumOfEntries(Tail(events))
\* the member samples of a group
MemberSamples(group) == {group.events[k] : k \in DOMAIN group.events}

\* C26: in every clean group totalDuration is the sum of the durations of the
\* samples of its events list, and titleDurations holds for each title the sum
\* of the durations of the member samples with that title
C26_GroupAccounting ==
    windowGroups.called =>
        \A group \in CleanOnes :
            /\ group.totalDuration = SumOfEntries(group.events)
            /\ DOMAIN group.titleDurations =
                   {NormalizeTitle(e.title) : e \in MemberSamples(group)}
            /\ \A t \in DOMAIN group.titleDurations :
                   group.titleDurations[t] =
                       SumOfDurations({e \in MemberSamples(group) :
                                          NormalizeTitle(e.title) = t})

\* C27: no sample is in the events lists of two groups, and none is twice in
\* the events list of one group
C27_OneGroupPerSample ==
    windowGroups.called =>
        /\ \A g, h \in DOMAIN windowGroups.allGroups :
               g # h => Members(windowGroups.allGroups[g])
                            \cap Members(windowGroups.allGroups[h]) = {}
        /\ \A group \in Groups :
               \A k, l \in DOMAIN group.events :
                   k # l => group.events[k].id # group.events[l].id

\* ---- one call of loadAndProcessEvents (specification SpecLoad)

\* C22: the result holds every fetched event once and in fetch order, the
\* events of other buckets as they are and the task events with their
\* activitySegments, whatever the ids
C22_LoadReturnsAll ==
    loaded.called =>
        /\ Len(loaded.result) = Len(allEvents)
        /\ \A i \in DOMAIN allEvents :
               IF IsStopwatchBucket(allEvents[i].bucket)
               THEN /\ loaded.result[i].hasSegments
                    /\ [loaded.result[i] EXCEPT !.hasSegments = FALSE,
                                                !.activitySegments = <<>>]
                           = allEvents[i]
               ELSE loaded.result[i] = allEvents[i]

\* ---- overlapping refreshes (specification SpecRefresh)

\* C21: when two refreshes have both completed, the application state and the
\* timeline hold the result of the one that was started last
C21_SupersededRefresh ==
    (/\ Len(refreshes) >= 2
     /\ \A r \in DOMAIN refreshes : refreshes[r].pc = "done")
        => /\ allEventsData = refreshes[Len(refreshes)].result
           /\ timeline = redrawTimeline(refreshes[Len(refreshes)].result)

\* ---- the edit panel (specification SpecEdit)

IsStoppedCopy(event) ==
    /\ event.id # edit.originalEvent.id
    /\ event.timestamp = edit.originalEvent.timestamp
    /\ ~event.running
    /\ event.duration = DurationBetween(edit.originalEvent.timestamp, now)
    /\ event.duration >= 0
StoppedCopies == {k \in DOMAIN bucketEvents : IsStoppedCopy(bucketEvents[k])}
CopiesBefore == {k \in DOMAIN edit.storeBefore :
                    IsStoppedCopy(edit.storeBefore[k])}

\* C23: while and after Stop handles a running task, the store holds the task
\* as the original event or as its stopped copy (same start, not running,
\* duration = now - start >= 0); the deletion of the original is sent only
\* after the copy was created, and after a successful Stop the original is
\* gone and the copy is there
C23_StopKeepsTask ==
    (edit.kind = "stop" /\ edit.pc # "rejected")
        => /\ InStore(bucketEvents, edit.originalEvent.id) \/ StoppedCopies # {}
           /\ edit.pc \in {"deleting", "done"}
                 => /\ edit.answers = <<"ok">>
                    /\ Cardinality(StoppedCopies) = Cardinality(CopiesBefore) + 1
           /\ edit.pc = "done"
                 => /\ ~InStore(bucketEvents, edit.originalEvent.id)
                    /\ Len(bucketEvents) = Len(edit.storeBefore)
C23_Witness ==
    /\ edit.kind = "stop"
    /\ edit.pc = "done"
    /\ StoppedCopies # {}
    /\ ~InStore(bucketEvents, edit.originalEvent.id)

\* C24: when a duration computed by Save (either one in the split mode) or by
\* Stop is negative, a notification is shown and the store stays as it was
C24_RejectedEdit ==
    (edit.kind # "" /\ \E k \in DOMAIN edit.durations : edit.durations[k] < 0)
        => /\ edit.notification \in
                  {"Invalid event duration.",
                   "End time cannot be before start time.",
                   "End time cannot be before start time for either event."}
           /\ bucketEvents = edit.storeBefore
           /\ \A k \in DOMAIN edit.answers : edit.answers[k] = "pending"
C24_Witness ==
    /\ edit.kind = "split"
    /\ edit.durations[1] >= 0
    /\ edit.durations[2] < 0
    /\ edit.pc = "rejected"
    /\ bucketEvents = edit.storeBefore

\* C25: in Save, plain or split, the original event leaves the store only
\* after every replacement was created successfully, and when a creation has
\* failed the original event is in the store
C25_SaveKeepsTask ==
    edit.kind \in {"save", "split"}
        => /\ (edit.pc \in {"deleting", "done"}
                \/ ~InStore(bucketEvents, edit.originalEvent.id))
                  => /\ edit.answers # <<>>
                     /\ \A k \in DOMAIN edit.answers : edit.answers[k] = "ok"
           /\ (\E k \in DOMAIN edit.answers :
                    edit.answers[k] \in {"refused", "lost"})
                  => /\ edit.pc = "failed"
                     /\ InStore(bucketEvents, edit.originalEvent.id)
C25_Witness ==
    /\ edit.kind = "split"
    /\ edit.pc = "failed"
    /\ edit.answers = <<"ok", "refused">>
    /\ InStore(bucketEvents, edit.originalEvent.id)

\* ---- the slots of the calendar (specification SpecCalendar)

\* C28: on every rendered day no two labels have the same slot, and a label
\* with active time on two consecutive days has the same slot on both
C28_CalendarSlots ==
    daySlots # <<>>
        => /\ Len(daySlots) = MaxDays
           /\ \A day \in Days :
                 /\ DOMAIN daySlots[day] = activitiesForDay(calendarData, day)
                 /\ \A a, b \in DOMAIN daySlots[day] :
                        a # b => daySlots[day][a] # daySlots[day][b]
           /\ \A day \in 1..(MaxDays - 1) :
                 \A label \in DOMAIN daySlots[day] \cap DOMAIN daySlots[day + 1] :
                     daySlots[day + 1][label] = daySlots[day][label]
C28_Witness ==
    /\ daySlots # <<>>
    /\ \E day \in 1..(MaxDays - 1) :
       \E a, b \in DOMAIN daySlots[day + 1] :
           /\ a \in DOMAIN daySlots[day]
           /\ b \notin DOMAIN daySlots[day]
           /\ calendarData[b][day + 1] > calendarData[a][day + 1]
           /\ daySlots[day + 1][a] = 0
           /\ daySlots[day + 1][b] = 1

\* ---- the Escape key (specification SpecPanels)

\* C29: one press of Escape hides exactly the first open panel in the order
\* edit, info, report, color rules, calendar, and toggles the zoom panel once
\* when none of them is open
C29_EscapeOnce ==
    lastEscape.pressed => lastEscape.after = EscapeListener(lastEscape.before)

\* ---- navigation in the calendar (specification SpecView)

\* C30: once no call of renderCalendar awaits its fetch, the grid holds exactly
\* one set of day cells, those of the month shown in the header
C30_OneMonthInGrid ==
    calendarView.pending = <<>> => calendarView.grid = <<calendarView.header>>
====
